---- MODULE Spec2Model ----
(***************************************************************************)
(* Settings / workspace persistence core of soapbox.                       *)
(*                                                                         *)
(*   backend  : src/backend/src/index.ts   (Express handlers, deepMerge)   *)
(*   frontend : src/frontend/src/contexts/SettingsContext.tsx              *)
(*              src/unnamed/part_005        (WorkspacesContext)            *)
(*              src/frontend/src/types/shared.ts (DEFAULT_SETTINGS)        *)
(*                                                                         *)
(* JSON values are tagged records.  A string is a sequence of characters;  *)
(* enumeration values, emoji and identifiers that no operation looks       *)
(* inside are written as a single token.                                   *)
(***************************************************************************)
EXTENDS Integers, Sequences, FiniteSets, TLC

VARIABLES
    dbSettings,      \* User.settings column of the signed-in user (JSON or null)
    dbWorkspaces,    \* User.workspaces column: sequence of workspace records
    now,             \* the server clock read by `new Date()`
    nextUuid,        \* number of ids crypto.randomUUID() has handed out
    res,             \* the last HTTP response of the backend
    globalSettings,  \* SettingsProvider state: raw global settings
    useLocalStorage, \* SettingsProvider state: local-only mode flag
    localSettings,   \* localStorage["soapbox_user_settings"] (parsed), or null
    overrides,       \* workspaceOverrides prop: currentWorkspace.settingsOverrides
    mergeTarget,     \* deepMerge called on its own: the `target` argument
    mergeSource,     \* ... the `source` argument
    mergeResult,     \* ... which deepMerge ran, what it returned, and whether the
                     \*     source was merged into the result once more
    desktopWindow,   \* a WindowState of the desktop
    savedWindow,     \* its SerializedWindowState, once serialized
    restoredWindow,  \* the WindowState restored from savedWindow
    clientWorkspaces,   \* WorkspacesProvider state: `workspaces`
    currentWorkspaceId, \* WorkspacesProvider state: `currentWorkspaceId`
    storedWorkspaceId,  \* localStorage["soapbox_current_workspace"]; "": not set
    pendingFetches,     \* the currentWorkspaceId captured by each fetchWorkspaces
                        \*     call that has not settled yet
    mounted,            \* WorkspacesProvider: the mount effects have run
    users,              \* the User table: email, password hash, emailVerified
    verificationTokens, \* the VerificationToken table
    issuedTokens,       \* number of tokens generateVerificationToken() handed out
    authRes,            \* the last response of an /api/auth endpoint
    verifyLog,          \* emails whose verify-email request was answered 200
    inFlight,           \* GET /api/user/settings requests of the page in flight
    initiated,          \* number of fetches the page has started
    lastApplied,        \* per kind, the start number of the fetch applied last
    handlers,           \* backend requests between their read and their write
    writes,             \* the writes of the backend, in the order they happened
    windows,            \* SoapboxDesktop state: `windows`
    isInitialized,      \* SoapboxDesktop state: `isInitialized`
    saveTimer,          \* the pending timeout of the save effect, if any
    windowChanges       \* number of actions of the user on the desktop so far

vars == <<dbSettings, dbWorkspaces, now, nextUuid, res,
          globalSettings, useLocalStorage, localSettings, overrides,
          mergeTarget, mergeSource, mergeResult,
          desktopWindow, savedWindow, restoredWindow,
          clientWorkspaces, currentWorkspaceId, storedWorkspaceId, pendingFetches,
          mounted, users, verificationTokens, issuedTokens, authRes, verifyLog,
          inFlight, initiated, lastApplied, handlers, writes,
          windows, isInitialized, saveTimer, windowChanges>>

registryVars == <<dbWorkspaces, now, nextUuid>>
settingsVars == <<dbSettings, globalSettings, useLocalStorage, localSettings, overrides>>
mergeVars == <<mergeTarget, mergeSource, mergeResult>>
windowVars == <<desktopWindow, savedWindow, restoredWindow>>
sessionVars == <<clientWorkspaces, currentWorkspaceId, storedWorkspaceId,
                 pendingFetches, mounted>>
accountVars == <<users, verificationTokens, issuedTokens, authRes, verifyLog>>
asyncVars == <<inFlight, initiated, lastApplied>>
raceVars == <<handlers, writes>>
desktopVars == <<windows, isInitialized, saveTimer, windowChanges>>

\* the settings and workspace core
coreVars == <<registryVars, settingsVars, res>>

\* what the settings and workspace operations do not touch
otherVars == <<mergeVars, windowVars, sessionVars, accountVars, asyncVars, raceVars,
               desktopVars>>

\* what a call of deepMerge on its own, and what the window conversions, do
\* not touch
notMergeVars == <<coreVars, windowVars, sessionVars, accountVars, asyncVars,
                  raceVars, desktopVars>>
notWindowVars == <<coreVars, mergeVars, sessionVars, accountVars, asyncVars,
                   raceVars, desktopVars>>

\* what the workspaces provider, and what the account endpoints, do not touch
notSessionVars == <<settingsVars, mergeVars, windowVars, accountVars, asyncVars,
                    raceVars, desktopVars>>
notAccountVars == <<dbSettings, dbWorkspaces, nextUuid, res, globalSettings,
                    useLocalStorage, localSettings, overrides,
                    mergeVars, windowVars, sessionVars, asyncVars, raceVars,
                    desktopVars>>

-----------------------------------------------------------------------------
(* Bounds of the model *)

\* the server clock stops here; every persisted write takes one tick
MaxClock == 4
\* number of ids crypto.randomUUID() can hand out
MaxUuid == 2

-----------------------------------------------------------------------------
(* JSON values *)

Undefined == [k |-> "undefined"]
Null      == [k |-> "null"]
Str(s)    == [k |-> "str", s |-> s]
Num(n)    == [k |-> "num", n |-> n, d |-> 1]
Dec(n, d) == [k |-> "num", n |-> n, d |-> d]
Bool(b)   == [k |-> "bool", b |-> b]
Arr(a)    == [k |-> "arr", a |-> a]
Obj(f)    == [k |-> "obj", o |-> f]
Date(t)   == [k |-> "date", t |-> t]

EmptyObj == Obj(<< >>)
EmptyArr == Arr(<< >>)

\* a one-token string
Tok(w) == Str(<<w>>)

IsObject(v) == v.k = "obj"
IsArray(v)  == v.k = "arr"

\* JavaScript truthiness (`!x`, `x && ...`, `x || y`)
Truthy(v) ==
    CASE v.k = "undefined" -> FALSE
      [] v.k = "null"      -> FALSE
      [] v.k = "str"       -> v.s # << >>
      [] v.k = "num"       -> v.n # 0
      [] v.k = "bool"      -> v.b
      [] OTHER             -> TRUE

\* `a || b`
OrElse(a, b) == IF Truthy(a) THEN a ELSE b

\* typeof v === 'object' (null, arrays and objects)
TypeofObject(v) == v.k \in {"null", "arr", "obj"}

\* Object.keys(v) throws a TypeError for null and undefined
KeysThrows(v) == v.k \in {"null", "undefined"}

\* Object.keys(v): own keys of an object, the indices of an array
ObjectKeys(v) ==
    CASE v.k = "obj" -> DOMAIN v.o
      [] v.k = "arr" -> {ToString(i - 1) : i \in DOMAIN v.a}
      [] v.k = "str" -> {ToString(i - 1) : i \in DOMAIN v.s}
      [] OTHER       -> {}

\* v[key]
Get(v, key) ==
    CASE v.k = "obj" /\ key \in DOMAIN v.o -> v.o[key]
      [] v.k = "arr" /\ key \in ObjectKeys(v) ->
            v.a[CHOOSE i \in DOMAIN v.a : ToString(i - 1) = key]
      [] v.k = "str" /\ key \in ObjectKeys(v) ->
            Str(<<v.s[CHOOSE i \in DOMAIN v.s : ToString(i - 1) = key]>>)
      [] OTHER -> Undefined

-----------------------------------------------------------------------------
(* Deep merge, backend: index.ts 520-545 *)

\* the branch condition of the backend merge (index.ts 527-534)
MergeRecursesBackend(targetValue, sourceValue) ==
    /\ Truthy(sourceValue) /\ TypeofObject(sourceValue) /\ ~IsArray(sourceValue)
    /\ Truthy(targetValue) /\ TypeofObject(targetValue) /\ ~IsArray(targetValue)

\* mutant of deepMergeBackend: one level deep, and two arrays are concatenated
deepMergeBackendConcat(target, source) ==
    Obj([key \in ObjectKeys(target) \cup ObjectKeys(source) |->
            IF key \notin ObjectKeys(source)
            THEN Get(target, key)
            ELSE IF IsArray(Get(target, key)) /\ IsArray(Get(source, key))
                 THEN Arr(Get(target, key).a \o Get(source, key).a)
                 ELSE Get(source, key)])

\* mutant of deepMergeBackend: the result is a copy of the source alone
deepMergeBackendDropsTarget(target, source) ==
    Obj([key \in ObjectKeys(source) |-> Get(source, key)])

RECURSIVE deepMergeBackend(_, _)
deepMergeBackend(target, source) ==
    Obj([key \in ObjectKeys(target) \cup ObjectKeys(source) |->
            IF key \notin ObjectKeys(source)
            THEN Get(target, key)
            ELSE IF MergeRecursesBackend(Get(target, key), Get(source, key))
                 THEN deepMergeBackend(Get(target, key), Get(source, key))
                 ELSE Get(source, key)])

-----------------------------------------------------------------------------
(* Deep merge, frontend: SettingsContext.tsx 69-98 *)

\* mutant of MergeRecursesFrontend: the Array.isArray tests are missing
MergeRecursesFrontendArrays(targetValue, sourceValue) ==
    /\ sourceValue # Undefined
    /\ TypeofObject(sourceValue) /\ sourceValue # Null
    /\ TypeofObject(targetValue) /\ targetValue # Null

\* the branch condition of the frontend merge (SettingsContext.tsx 79-87)
MergeRecursesFrontend(targetValue, sourceValue) ==
    /\ sourceValue # Undefined
    /\ TypeofObject(sourceValue) /\ sourceValue # Null /\ ~IsArray(sourceValue)
    /\ TypeofObject(targetValue) /\ targetValue # Null /\ ~IsArray(targetValue)

\* mutant of deepMerge: a shallow spread, { ...target, ...source }
deepMergeShallow(target, source) ==
    Obj([key \in ObjectKeys(target) \cup ObjectKeys(source) |->
            IF key \in ObjectKeys(source) THEN Get(source, key) ELSE Get(target, key)])

\* mutant of deepMerge: a null in the source is skipped like undefined
deepMergeSkipsNull(target, source) ==
    Obj([key \in ObjectKeys(target) \cup
                 {x \in ObjectKeys(source) : Get(source, x) \notin {Undefined, Null}} |->
            IF key \notin ObjectKeys(source) \/ Get(source, key) \in {Undefined, Null}
            THEN Get(target, key)
            ELSE IF MergeRecursesFrontend(Get(target, key), Get(source, key))
                 THEN deepMergeBackend(Get(target, key), Get(source, key))
                 ELSE Get(source, key)])

RECURSIVE deepMerge(_, _)
deepMerge(target, source) ==
    Obj([key \in ObjectKeys(target) \cup
                 {x \in ObjectKeys(source) : Get(source, x) # Undefined} |->
            IF key \notin ObjectKeys(source) \/ Get(source, key) = Undefined
            THEN Get(target, key)
            ELSE IF MergeRecursesFrontend(Get(target, key), Get(source, key))
                 THEN deepMerge(Get(target, key), Get(source, key))
                 ELSE Get(source, key)])

-----------------------------------------------------------------------------
(* Strings *)

Whitespace == {" ", "\t", "\n"}

RECURSIVE TrimStart(_)
TrimStart(s) ==
    IF s # << >> /\ Head(s) \in Whitespace THEN TrimStart(Tail(s)) ELSE s

RECURSIVE TrimEnd(_)
TrimEnd(s) ==
    IF s # << >> /\ s[Len(s)] \in Whitespace
    THEN TrimEnd(SubSeq(s, 1, Len(s) - 1))
    ELSE s

\* String.prototype.trim
Trim(s) == TrimEnd(TrimStart(s))

-----------------------------------------------------------------------------
(* Workspace registry, backend: index.ts 441-481, 552-704 *)

\* mutant of randomUUID: an id generator that repeats itself
randomUUIDRepeats(n) == "uuid-1"

\* crypto.randomUUID(): the n-th id handed out; ids are never repeated
randomUUID(n) == "uuid-" \o ToString(n)

Workspace(id, name, icon, settingsOverrides, windowState, createdAt, updatedAt) ==
    [id |-> id, name |-> name, icon |-> icon,
     settingsOverrides |-> settingsOverrides, windowState |-> windowState,
     createdAt |-> createdAt, updatedAt |-> updatedAt]

\* workspaces.some((w) => w.id === id)
HasId(workspaces, id) == \E i \in DOMAIN workspaces : workspaces[i].id = id

\* workspaces.findIndex((w) => w.id === id); 0 stands for -1
findIndex(workspaces, id) ==
    IF HasId(workspaces, id)
    THEN CHOOSE i \in DOMAIN workspaces :
            /\ workspaces[i].id = id
            /\ \A j \in 1..(i - 1) : workspaces[j].id # id
    ELSE 0

\* the entry GET /api/user/settings synthesizes (index.ts 463-469)
SynthesizedDefault ==
    Workspace("default", Tok("Default"), Tok("globe"), EmptyObj, EmptyArr,
              Undefined, Undefined)

\* mutant of ListWorkspaces: push instead of unshift
ListWorkspacesPush(stored) ==
    IF HasId(stored, "default") THEN stored ELSE Append(stored, SynthesizedDefault)

\* the list GET /api/user/settings returns (index.ts 458-470)
ListWorkspaces(stored) ==
    IF HasId(stored, "default") THEN stored ELSE <<SynthesizedDefault>> \o stored

\* a response, with the `settings` value of the request body it answers
\* (settings requests only)
Response(op, id, status, settings, workspace, workspaces) ==
    [op |-> op, id |-> id, status |-> status, settings |-> settings,
     workspace |-> workspace, workspaces |-> workspaces, req |-> Undefined]

ErrorResponse(op, id, status) ==
    Response(op, id, status, Undefined, Undefined, << >>)

\* GET /api/user/settings (index.ts 441-481)
GetSettings ==
    /\ res' = Response("GET", "", 200, OrElse(dbSettings, EmptyObj), Undefined,
                       ListWorkspaces(dbWorkspaces))
    /\ UNCHANGED <<otherVars, registryVars, settingsVars>>

\* name validation of POST /api/workspaces (index.ts 556)
NameRejected(name) == ~Truthy(name) \/ name.k # "str"

\* the record POST /api/workspaces builds (index.ts 572-580)
NewWorkspace(body, uuid, t) ==
    Workspace(uuid, Str(Trim(body.name.s)), OrElse(body.icon, Tok("folder")),
              OrElse(body.settingsOverrides, EmptyObj), EmptyArr, Date(t), Date(t))

\* POST /api/workspaces (index.ts 552-595)
PostWorkspace(body) ==
    IF NameRejected(body.name)
    THEN /\ res' = ErrorResponse("POST", "", 400)
         /\ UNCHANGED <<otherVars, registryVars, settingsVars>>
    ELSE /\ nextUuid < MaxUuid
         /\ now < MaxClock
         /\ LET newWorkspace == NewWorkspace(body, randomUUID(nextUuid + 1), now)
            IN  /\ dbWorkspaces' = Append(dbWorkspaces, newWorkspace)
                /\ res' = Response("POST", "", 201, Undefined, newWorkspace, << >>)
         /\ nextUuid' = nextUuid + 1
         /\ now' = now + 1
         /\ UNCHANGED <<otherVars, settingsVars>>

\* mutant of HealedDefault: the body's name and icon are dropped
HealedDefaultForgetsBody(body, t) ==
    Workspace("default", Tok("Default"), Tok("globe"),
              OrElse(body.settingsOverrides, EmptyObj),
              OrElse(body.windowState, EmptyArr), Date(t), Date(t))

\* the default workspace PATCH creates when none is stored (index.ts 618-626)
HealedDefault(body, t) ==
    Workspace("default", OrElse(body.name, Tok("Default")),
              OrElse(body.icon, Tok("globe")),
              OrElse(body.settingsOverrides, EmptyObj),
              OrElse(body.windowState, EmptyArr), Date(t), Date(t))

\* mutant of UpdatedWorkspace: settingsOverrides replaced, not merged
UpdatedWorkspaceReplaces(workspace, body, t) ==
    [workspace EXCEPT
        !.name = IF body.name # Undefined THEN body.name ELSE @,
        !.icon = IF body.icon # Undefined THEN body.icon ELSE @,
        !.settingsOverrides =
            IF body.settingsOverrides # Undefined THEN body.settingsOverrides ELSE @,
        !.windowState = IF body.windowState # Undefined THEN body.windowState ELSE @,
        !.updatedAt = Date(t)]

\* the field updates of PATCH /api/workspaces/:id (index.ts 639-651)
UpdatedWorkspace(workspace, body, t) ==
    [workspace EXCEPT
        !.name = IF body.name # Undefined THEN body.name ELSE @,
        !.icon = IF body.icon # Undefined THEN body.icon ELSE @,
        !.settingsOverrides =
            IF body.settingsOverrides # Undefined
            THEN deepMergeBackend(OrElse(@, EmptyObj), body.settingsOverrides)
            ELSE @,
        !.windowState = IF body.windowState # Undefined THEN body.windowState ELSE @,
        !.updatedAt = Date(t)]

\* PATCH /api/workspaces/:id (index.ts 598-666)
PatchWorkspace(id, body) ==
    LET workspaceIndex == findIndex(dbWorkspaces, id) IN
    IF workspaceIndex = 0
    THEN IF id = "default"
         THEN /\ now < MaxClock
              /\ LET defaultWorkspace == HealedDefault(body, now)
                 IN  /\ dbWorkspaces' = <<defaultWorkspace>> \o dbWorkspaces
                     /\ res' = Response("PATCH", id, 200, Undefined,
                                        defaultWorkspace, << >>)
              /\ now' = now + 1
              /\ UNCHANGED <<otherVars, nextUuid, settingsVars>>
         ELSE /\ res' = ErrorResponse("PATCH", id, 404)
              /\ UNCHANGED <<otherVars, registryVars, settingsVars>>
    ELSE IF body.settingsOverrides # Undefined /\ KeysThrows(body.settingsOverrides)
         THEN \* Object.keys throws inside deepMerge: caught, nothing persisted
              /\ res' = ErrorResponse("PATCH", id, 500)
              /\ UNCHANGED <<otherVars, registryVars, settingsVars>>
         ELSE /\ now < MaxClock
              /\ LET workspace == UpdatedWorkspace(dbWorkspaces[workspaceIndex], body, now)
                 IN  /\ dbWorkspaces' = [dbWorkspaces EXCEPT ![workspaceIndex] = workspace]
                     /\ res' = Response("PATCH", id, 200, Undefined, workspace, << >>)
              /\ now' = now + 1
              /\ UNCHANGED <<otherVars, nextUuid, settingsVars>>

\* mutant of FilterOut: the predicate inverted
FilterOutInverted(workspaces, id) == SelectSeq(workspaces, LAMBDA w : w.id = id)

\* workspaces.filter((w) => w.id !== id) (index.ts 687)
FilterOut(workspaces, id) == SelectSeq(workspaces, LAMBDA w : w.id # id)

\* mutant of DeleteWorkspace: the default is not protected
DeleteWorkspaceUnprotected(id) ==
    LET filteredWorkspaces == SelectSeq(dbWorkspaces, LAMBDA w : w.id # id) IN
    IF Len(filteredWorkspaces) = Len(dbWorkspaces)
    THEN /\ res' = ErrorResponse("DELETE", id, 404)
         /\ UNCHANGED <<otherVars, registryVars, settingsVars>>
    ELSE /\ now < MaxClock
         /\ dbWorkspaces' = filteredWorkspaces
         /\ res' = Response("DELETE", id, 200, Undefined, Undefined, << >>)
         /\ now' = now + 1
         /\ UNCHANGED <<otherVars, nextUuid, settingsVars>>

\* DELETE /api/workspaces/:id (index.ts 669-704)
DeleteWorkspace(id) ==
    IF id = "default"
    THEN /\ res' = ErrorResponse("DELETE", id, 400)
         /\ UNCHANGED <<otherVars, registryVars, settingsVars>>
    ELSE LET filteredWorkspaces == FilterOut(dbWorkspaces, id) IN
         IF Len(filteredWorkspaces) = Len(dbWorkspaces)
         THEN /\ res' = ErrorResponse("DELETE", id, 404)
              /\ UNCHANGED <<otherVars, registryVars, settingsVars>>
         ELSE /\ now < MaxClock
              /\ dbWorkspaces' = filteredWorkspaces
              /\ res' = Response("DELETE", id, 200, Undefined, Undefined, << >>)
              /\ now' = now + 1
              /\ UNCHANGED <<otherVars, nextUuid, settingsVars>>

-----------------------------------------------------------------------------
(* Default settings: shared.ts 136-198 *)

HotkeyBinding(key, modifiers) ==
    Obj("key" :> Tok(key) @@ "modifiers" :> Obj(modifiers))

Meta      == "meta" :> Bool(TRUE)
MetaShift == "meta" :> Bool(TRUE) @@ "shift" :> Bool(TRUE)

DEFAULT_SETTINGS ==
    Obj("appearance" :> Obj(
            "theme" :> Tok("dark") @@
            "glassmorphismIntensity" :> Num(80) @@
            "borderRadiusScale" :> Num(12) @@
            "fontScale" :> Num(100) @@
            "fontFamily" :> Tok("system-sans") @@
            "accentColor" :> Tok("#3b82f6") @@
            "windowShadowIntensity" :> Num(60) @@
            "reducedMotion" :> Bool(FALSE)) @@
        "workspaceLayout" :> Obj(
            "defaultTimeHorizon" :> Num(7) @@
            "streamingDirection" :> Tok("newest-top") @@
            "summaryLinesPerItem" :> Num(2) @@
            "overflowBehavior" :> Tok("truncate") @@
            "autoMinimizeInactive" :> Tok("off") @@
            "gridSnapStrength" :> Tok("weak") @@
            "defaultNewWindowSize" :> Tok("medium")) @@
        "feedContent" :> Obj(
            "defaultTemporalLayer" :> Tok("current") @@
            "sentimentIndicatorVisibility" :> Tok("always") @@
            "propagandaFlagsVisibility" :> Tok("hover") @@
            "tagDisplayMode" :> Tok("inline-chips") @@
            "credibilityDimmingThreshold" :> Dec(3, 10) @@
            "autoExpandCalendarEvents" :> Bool(TRUE) @@
            "dateFormat" :> Tok("iso") @@
            "timeFormat" :> Tok("24h") @@
            "localeOverride" :> Str(<< >>)) @@
        "keyboardInput" :> Obj(
            "hotkeys" :> Obj(
                "openSettings" :> HotkeyBinding("Comma", Meta) @@
                "openHotkeyCheatsheet" :> HotkeyBinding("Slash", "shift" :> Bool(TRUE)) @@
                "openFeedWindow" :> HotkeyBinding("KeyF", MetaShift) @@
                "openCalendarWindow" :> HotkeyBinding("KeyE", MetaShift) @@
                "toggleFutureFilter" :> HotkeyBinding("KeyP", Meta) @@
                "switchWorkspace1" :> HotkeyBinding("Digit1", Meta) @@
                "switchWorkspace2" :> HotkeyBinding("Digit2", Meta) @@
                "switchWorkspace3" :> HotkeyBinding("Digit3", Meta) @@
                "switchWorkspace4" :> HotkeyBinding("Digit4", Meta) @@
                "switchWorkspace5" :> HotkeyBinding("Digit5", Meta) @@
                "switchWorkspace6" :> HotkeyBinding("Digit6", Meta) @@
                "switchWorkspace7" :> HotkeyBinding("Digit7", Meta) @@
                "switchWorkspace8" :> HotkeyBinding("Digit8", Meta) @@
                "switchWorkspace9" :> HotkeyBinding("Digit9", Meta))) @@
        "accessibility" :> Obj(
            "highContrastModeOverride" :> Bool(FALSE) @@
            "screenReaderVerbosity" :> Tok("concise") @@
            "focusOutlineThickness" :> Num(2) @@
            "animationDurationScale" :> Num(100) @@
            "colorVisionDeficiencyPreview" :> Tok("none")) @@
        "accountSubscription" :> Obj(
            "currentSubscriptionPlan" :> Tok("free") @@
            "premiumFeaturePreview" :> Bool(FALSE) @@
            "preferredDataExportFormat" :> Tok("json") @@
            "sessionTimeoutDuration" :> Num(0)))

-----------------------------------------------------------------------------
(* Global settings store, backend: index.ts 484-517 *)

\* payload validation of PATCH /api/user/settings (index.ts 488)
SettingsRejected(settings) == ~Truthy(settings) \/ ~TypeofObject(settings)

\* mutant of MergedSettings: a shallow spread of the payload over the stored value
MergedSettingsShallow(stored, settings) ==
    deepMergeShallow(OrElse(stored, EmptyObj), settings)

\* the settings PATCH persists (index.ts 502-503)
MergedSettings(stored, settings) ==
    deepMergeBackend(OrElse(stored, EmptyObj), settings)

SettingsResponse(status, settings, req) ==
    [Response("PATCH_SETTINGS", "", status, settings, Undefined, << >>)
        EXCEPT !.req = req]

\* PATCH /api/user/settings as sent by any client of the API (index.ts 484-517)
PatchSettings(settings) ==
    /\ IF SettingsRejected(settings)
       THEN /\ res' = SettingsResponse(400, Undefined, Undefined)
            /\ UNCHANGED dbSettings
       ELSE /\ dbSettings' = MergedSettings(dbSettings, settings)
            /\ res' = SettingsResponse(200, dbSettings', settings)
    /\ UNCHANGED <<otherVars, registryVars, globalSettings, useLocalStorage, localSettings, overrides>>

-----------------------------------------------------------------------------
(* SettingsProvider, frontend: SettingsContext.tsx 125-314 *)

\* { ...obj, [key]: value }
WithKey(obj, key, value) ==
    Obj([x \in ObjectKeys(obj) \cup {key} |-> IF x = key THEN value ELSE Get(obj, x)])

\* the effective settings (SettingsContext.tsx 138-144)
Resolve(global, workspaceOverrides) ==
    deepMerge(deepMerge(DEFAULT_SETTINGS, global), workspaceOverrides)

settings == Resolve(globalSettings, overrides)

\* loadFromLocalStorage (SettingsContext.tsx 147-155); Null: the key is not set
loadFromLocalStorage == IF localSettings = Null THEN EmptyObj ELSE localSettings

\* fetchSettings of an authenticated session (SettingsContext.tsx 168-208);
\* backendOk: the GET was answered 200
fetchSettings(backendOk) ==
    /\ IF backendOk
       THEN /\ res' = Response("GET", "", 200, OrElse(dbSettings, EmptyObj), Undefined,
                               ListWorkspaces(dbWorkspaces))
            /\ globalSettings' = OrElse(res'.settings, EmptyObj)
            /\ useLocalStorage' = FALSE
       ELSE /\ globalSettings' = loadFromLocalStorage
            /\ useLocalStorage' = TRUE
            /\ UNCHANGED res
    /\ UNCHANGED <<otherVars, registryVars, dbSettings, localSettings, overrides>>

\* the optimistic value of updateSettings (SettingsContext.tsx 229-235)
newGlobalSettings(global, section, updates) ==
    WithKey(global, section,
            deepMerge(OrElse(Get(global, section), EmptyObj), updates))

\* mutant of updateSettings: a failed PATCH is not followed by the fallback
updateSettingsNoFallback(section, updates, backendOk) ==
    LET new == newGlobalSettings(globalSettings, section, updates) IN
    /\ IF useLocalStorage
       THEN /\ globalSettings' = new
            /\ localSettings' = new
            /\ UNCHANGED <<dbSettings, useLocalStorage, res>>
       ELSE IF backendOk
       THEN /\ dbSettings' = MergedSettings(dbSettings, Obj(section :> updates))
            /\ res' = SettingsResponse(200, dbSettings', Obj(section :> updates))
            /\ globalSettings' = OrElse(res'.settings, new)
            /\ UNCHANGED <<useLocalStorage, localSettings>>
       ELSE /\ globalSettings' = new
            /\ UNCHANGED <<dbSettings, res, useLocalStorage, localSettings>>
    /\ UNCHANGED <<otherVars, registryVars, overrides>>

\* updateSettings of an authenticated session (SettingsContext.tsx 216-275);
\* backendOk: the PATCH was answered 200
updateSettings(section, updates, backendOk) ==
    LET new == newGlobalSettings(globalSettings, section, updates) IN
    /\ IF useLocalStorage
       THEN /\ globalSettings' = new
            /\ localSettings' = new
            /\ UNCHANGED <<dbSettings, useLocalStorage, res>>
       ELSE IF backendOk
       THEN /\ dbSettings' = MergedSettings(dbSettings, Obj(section :> updates))
            /\ res' = SettingsResponse(200, dbSettings', Obj(section :> updates))
            /\ globalSettings' = OrElse(res'.settings, new)
            /\ UNCHANGED <<useLocalStorage, localSettings>>
       ELSE /\ globalSettings' = new
            /\ useLocalStorage' = TRUE
            /\ localSettings' = new
            /\ UNCHANGED <<dbSettings, res>>
    /\ UNCHANGED <<otherVars, registryVars, overrides>>

\* resetSettings of an authenticated session (SettingsContext.tsx 278-314)
resetSettings(backendOk) ==
    /\ globalSettings' = EmptyObj
    /\ localSettings' = Null
    /\ IF ~useLocalStorage /\ backendOk
       THEN /\ dbSettings' = MergedSettings(dbSettings, EmptyObj)
            /\ res' = SettingsResponse(200, dbSettings', EmptyObj)
       ELSE UNCHANGED <<dbSettings, res>>
    /\ UNCHANGED <<otherVars, registryVars, useLocalStorage, overrides>>

\* the overrides of the workspaces the registry operations produce from the
\* request bodies below: created, then updated at most once
ProducibleOverrides(postBodies, patchBodies) ==
    LET created == {EmptyObj} \cup
                   {OrElse(b.settingsOverrides, EmptyObj) : b \in postBodies}
        patches == {b.settingsOverrides : b \in patchBodies} \ {Undefined, Null}
    IN  created \cup {deepMergeBackend(o, q) : o \in created, q \in patches}

\* the active workspace, or its overrides, changed: SettingsProvider is
\* rendered with currentWorkspace.settingsOverrides || {} (shared.ts 282-291)
SettingsWithWorkspaceOverrides(workspaceOverrides) ==
    /\ overrides' = OrElse(workspaceOverrides, EmptyObj)
    /\ UNCHANGED <<otherVars, registryVars, dbSettings, res, globalSettings, useLocalStorage,
                   localSettings>>

-----------------------------------------------------------------------------
(* Request inputs *)

\* two workspace override patches on sibling fields of one section
OverridesTheme == Obj("appearance" :> Obj("theme" :> Tok("light")))
OverridesFont  == Obj("appearance" :> Obj("fontScale" :> Num(120)))

\* one serialized window
WindowA ==
    Obj("id" :> Tok("streaming-1") @@ "type" :> Tok("streaming") @@
        "title" :> Tok("Feed") @@ "x" :> Num(40) @@ "y" :> Num(40) @@
        "width" :> Num(400) @@ "height" :> Num(300))

PostBody(name, icon, settingsOverrides) ==
    [name |-> name, icon |-> icon, settingsOverrides |-> settingsOverrides]

\* bodies of POST /api/workspaces: missing, empty, blank, non-string and padded names
PostBodies ==
    {PostBody(name, Undefined, Undefined) :
        name \in {Undefined, Str(<< >>), Str(<<" ", " ">>), Num(7)}}
    \cup {PostBody(Str(<<" ", "W", " ">>), Tok("star"), OverridesTheme)}

PatchBody(name, icon, settingsOverrides, windowState) ==
    [name |-> name, icon |-> icon, settingsOverrides |-> settingsOverrides,
     windowState |-> windowState]

\* bodies of PATCH /api/workspaces/:id: nothing, one field, another field, all
\* fields, and all fields with falsy values
PatchBodies ==
    { PatchBody(Undefined, Undefined, Undefined, Undefined),
      PatchBody(Tok("Renamed"), Undefined, Undefined, Undefined),
      PatchBody(Undefined, Undefined, OverridesFont, Undefined),
      PatchBody(Str(<< >>), Tok("star"), OverridesTheme, Arr(<<WindowA>>)),
      PatchBody(Str(<< >>), Str(<< >>), Null, Null) }

\* ids a request can name: the default, and every id randomUUID can hand out
\* (stored or not)
RequestIds == {"default"} \cup {randomUUID(n) : n \in 1..MaxUuid}

-----------------------------------------------------------------------------
(* Workspace registry: specification *)

NoResponse == ErrorResponse("none", "", 0)

\* a user row without settings and workspaces, no request answered
StoreInit ==
    /\ dbSettings = Null
    /\ dbWorkspaces = << >>
    /\ now = 0
    /\ nextUuid = 0
    /\ res = NoResponse

\* SettingsProvider as constructed (SettingsContext.tsx 127-134)
ProviderInit ==
    /\ globalSettings = EmptyObj
    /\ useLocalStorage = FALSE
    /\ localSettings = Null
    /\ overrides = EmptyObj

\* deepMerge has not been called on its own
NoMerge == [impl |-> "none", value |-> Undefined, again |-> FALSE]

MergeIdle ==
    /\ mergeTarget = EmptyObj
    /\ mergeSource = EmptyObj
    /\ mergeResult = NoMerge

\* no window on the desktop
NoWindow == Undefined

WindowIdle ==
    /\ desktopWindow = NoWindow
    /\ savedWindow = NoWindow
    /\ restoredWindow = NoWindow

\* DEFAULT_WORKSPACE (shared.ts 225-231)
DEFAULT_WORKSPACE ==
    Workspace("default", Tok("Default"), Tok("globe"), EmptyObj, EmptyArr,
              Undefined, Undefined)

\* WorkspacesProvider as constructed (part_005 94-95), before its effects run
WorkspacesProviderInit ==
    /\ clientWorkspaces = <<DEFAULT_WORKSPACE>>
    /\ currentWorkspaceId = "default"
    /\ pendingFetches = {}
    /\ mounted = FALSE

\* nothing is remembered in localStorage
SessionIdle ==
    /\ WorkspacesProviderInit
    /\ storedWorkspaceId = ""

\* no /api/auth request was answered yet
NoAuthResponse ==
    [op |-> "none", status |-> 0, code |-> "", email |-> Undefined,
     password |-> Undefined, token |-> Undefined]

\* no account is registered
AccountIdle ==
    /\ users = {}
    /\ verificationTokens = {}
    /\ issuedTokens = 0
    /\ authRes = NoAuthResponse
    /\ verifyLog = {}

\* no fetch was started
AsyncIdle ==
    /\ inFlight = {}
    /\ initiated = 0
    /\ lastApplied = [settings |-> 0, workspaces |-> 0]

\* the backend is handling no request
RaceIdle ==
    /\ handlers = {}
    /\ writes = << >>

\* no timeout is pending
NoTimer == Undefined

\* SoapboxDesktop as constructed (page.tsx 234-239)
DesktopIdle ==
    /\ windows = << >>
    /\ isInitialized = FALSE
    /\ saveTimer = NoTimer
    /\ windowChanges = 0

Init ==
    /\ StoreInit
    /\ ProviderInit
    /\ MergeIdle
    /\ WindowIdle
    /\ SessionIdle
    /\ AccountIdle
    /\ AsyncIdle
    /\ RaceIdle
    /\ DesktopIdle

Next ==
    \/ GetSettings
    \/ \E body \in PostBodies : PostWorkspace(body)
    \/ \E id \in RequestIds, body \in PatchBodies : PatchWorkspace(id, body)
    \/ \E id \in RequestIds : DeleteWorkspace(id)

Spec == Init /\ [][Next]_vars

-----------------------------------------------------------------------------
(* Paths through JSON trees, used to state the merge properties without     *)
(* reference to the merge operators                                         *)

\* the value at path p, Undefined when the tree has none
RECURSIVE At(_, _)
At(v, p) == IF p = << >> THEN v ELSE At(Get(v, Head(p)), Tail(p))

RECURSIVE PathsOf(_)
PathsOf(v) ==
    IF IsObject(v)
    THEN {<< >>} \cup
         UNION {{<<key>> \o p : p \in PathsOf(v.o[key])} : key \in DOMAIN v.o}
    ELSE {<< >>}

\* paths that end in a value that is not an object (scalar, null, array)
LeafPaths(v) == {p \in PathsOf(v) : ~IsObject(At(v, p))}

\* leaf paths and the paths of empty objects
TerminalPaths(v) == {p \in PathsOf(v) : ~IsObject(At(v, p)) \/ At(v, p) = EmptyObj}

IsPrefix(q, p) == Len(q) <= Len(p) /\ SubSeq(p, 1, Len(q)) = q

\* one of the paths `terminals` lies at, above or below path p
NamedBy(terminals, p) == \E q \in terminals : IsPrefix(q, p) \/ IsPrefix(p, q)

\* the patch says something at, above or below path p
Named(patch, p) == NamedBy(TerminalPaths(patch), p)

\* merged is `base` with `patch` deep-merged into it: every leaf of the patch
\* is in merged, and every leaf of base the patch does not name is kept
IsDeepMergeOf(merged, base, patch) ==
    LET named == TerminalPaths(patch) IN
    /\ \A p \in LeafPaths(patch) : At(merged, p) = At(patch, p)
    /\ \A p \in LeafPaths(base) : ~NamedBy(named, p) => At(merged, p) = At(base, p)

-----------------------------------------------------------------------------
(* Workspace registry: properties *)

\* the list WorkspacesProvider.fetchWorkspaces keeps from a response
\* (part_005 138-146)
fetchedWorkspaces(dataWorkspaces) ==
    IF HasId(dataWorkspaces, "default")
    THEN dataWorkspaces
    ELSE <<SynthesizedDefault>> \o dataWorkspaces

DefaultFirst(list) == Len(list) >= 1 /\ list[1].id = "default"

\* C1: the workspace list of every GET /api/user/settings response (and the
\* list the client keeps from it) has the entry with id "default" as its first
\* element; when no default is stored that entry has empty settingsOverrides
\* and empty windowState.
C1_DefaultAlwaysFirst ==
    res.op = "GET" =>
        /\ DefaultFirst(res.workspaces)
        /\ DefaultFirst(fetchedWorkspaces(res.workspaces))
        /\ \A i \in 2..Len(res.workspaces) : res.workspaces[i].id # "default"
        /\ ~HasId(dbWorkspaces, "default") =>
              /\ res.workspaces[1].settingsOverrides = EmptyObj
              /\ res.workspaces[1].windowState = EmptyArr
              /\ Tail(res.workspaces) = dbWorkspaces

\* a GET answered while workspaces are stored but no default is
C1_Witness ==
    /\ res.op = "GET"
    /\ Len(dbWorkspaces) >= 2
    /\ ~HasId(dbWorkspaces, "default")

\* a GET answered while the default is stored behind nothing, after creates
C1_WitnessStored ==
    /\ res.op = "GET"
    /\ Len(dbWorkspaces) >= 2
    /\ HasId(dbWorkspaces, "default")

\* C2: DELETE /api/workspaces/default answers 400 and leaves the persisted
\* list as it was, stored default or not.
C2_DeleteDefaultRejected ==
    [][(res'.op = "DELETE" /\ res'.id = "default") =>
            (res'.status = 400 /\ dbWorkspaces' = dbWorkspaces)]_vars

\* the default is stored, with content, and its DELETE was answered 400
C2_Witness ==
    /\ res.op = "DELETE" /\ res.id = "default" /\ res.status = 400
    /\ \E i \in DOMAIN dbWorkspaces :
          /\ dbWorkspaces[i].id = "default"
          /\ dbWorkspaces[i].windowState # EmptyArr

\* a name that is a string of whitespace only (the empty string included)
IsBlank(name) == name.k = "str" /\ Trim(name.s) = << >>

\* C7: POST /api/workspaces with an empty or whitespace-only name answers 400
\* and adds no workspace.
C7_BlankNameRejected ==
    [][\A body \in PostBodies :
          (IsBlank(body.name) /\ PostWorkspace(body)) =>
              (res'.status = 400 /\ dbWorkspaces' = dbWorkspaces)]_vars

\* C8: a successful POST /api/workspaces returns a record whose id is not
\* "default" and not the id of any stored workspace, and the persisted list
\* becomes the previous list with that record appended.
C8_CreateAppendsFreshId ==
    [][(res'.op = "POST" /\ res'.status = 201) =>
            /\ res'.workspace.id # "default"
            /\ ~HasId(dbWorkspaces, res'.workspace.id)
            /\ dbWorkspaces' = Append(dbWorkspaces, res'.workspace)]_vars

\* a creation answered 201 that appended to a list of two
C8_Witness ==
    /\ res.op = "POST" /\ res.status = 201
    /\ Len(dbWorkspaces) = 3
    /\ dbWorkspaces[3] = res.workspace

\* C10: DELETE of a non-default id answers 404 and changes nothing when no
\* stored workspace has the id; otherwise exactly that workspace is removed
\* and the others keep content and order.
C10_DeleteRemovesExactlyOne ==
    [][(res'.op = "DELETE" /\ res'.id # "default") =>
            IF ~HasId(dbWorkspaces, res'.id)
            THEN res'.status = 404 /\ dbWorkspaces' = dbWorkspaces
            ELSE /\ res'.status = 200
                 /\ \E i \in DOMAIN dbWorkspaces :
                       /\ dbWorkspaces[i].id = res'.id
                       /\ dbWorkspaces' = SubSeq(dbWorkspaces, 1, i - 1) \o
                                          SubSeq(dbWorkspaces, i + 1, Len(dbWorkspaces))]_vars

\* a deletion answered 200 that left two workspaces behind
C10_Witness ==
    /\ res.op = "DELETE" /\ res.status = 200
    /\ Len(dbWorkspaces) = 2
    /\ ~HasId(dbWorkspaces, res.id)

\* a request body supplies a field when the field is present in the JSON
Supplied(v) == v # Undefined

\* the position of the stored workspace with this id
IndexOf(workspaces, id) == CHOOSE i \in DOMAIN workspaces : workspaces[i].id = id

\* what an update of `old` by `body` does to the fields a body can carry, and
\* to id and createdAt
PatchedFields(old, new, body) ==
    /\ new.id = old.id
    /\ new.createdAt = old.createdAt
    /\ new.name = IF Supplied(body.name) THEN body.name ELSE old.name
    /\ new.icon = IF Supplied(body.icon) THEN body.icon ELSE old.icon
    /\ new.windowState =
          IF Supplied(body.windowState) THEN body.windowState ELSE old.windowState
    /\ IF Supplied(body.settingsOverrides)
       THEN IsDeepMergeOf(new.settingsOverrides, old.settingsOverrides,
                          body.settingsOverrides)
       ELSE new.settingsOverrides = old.settingsOverrides

\* every other workspace is left as it was
OthersUnchanged(i) ==
    /\ Len(dbWorkspaces') = Len(dbWorkspaces)
    /\ \A j \in DOMAIN dbWorkspaces : j # i => dbWorkspaces'[j] = dbWorkspaces[j]

\* C5 as stated: a successful update of a stored workspace deep-merges the
\* supplied settingsOverrides, replaces supplied windowState, name and icon,
\* and leaves every field that is not supplied (updatedAt is never supplied)
\* and every other workspace unchanged.
C5_UpdateLeavesUnsuppliedFields ==
    [][(res'.op = "PATCH" /\ res'.status = 200 /\ HasId(dbWorkspaces, res'.id)) =>
          \A body \in PatchBodies : PatchWorkspace(res'.id, body) =>
              LET i == IndexOf(dbWorkspaces, res'.id) IN
              /\ OthersUnchanged(i)
              /\ PatchedFields(dbWorkspaces[i], dbWorkspaces'[i], body)
              /\ dbWorkspaces'[i].updatedAt = dbWorkspaces[i].updatedAt]_vars

\* C5 amended: as above, except that updatedAt is set to the time of the
\* request by every successful update, whatever the body supplies.
C5_UpdateMergesAndStamps ==
    [][(res'.op = "PATCH" /\ res'.status = 200 /\ HasId(dbWorkspaces, res'.id)) =>
          \A body \in PatchBodies : PatchWorkspace(res'.id, body) =>
              LET i == IndexOf(dbWorkspaces, res'.id) IN
              /\ OthersUnchanged(i)
              /\ PatchedFields(dbWorkspaces[i], dbWorkspaces'[i], body)
              /\ dbWorkspaces'[i].updatedAt = Date(now)
              /\ res'.workspace = dbWorkspaces'[i]]_vars

\* an update that merged a fontScale override into a stored theme override of
\* a workspace that is not the only one stored
C5_Witness ==
    /\ res.op = "PATCH" /\ res.status = 200
    /\ Len(dbWorkspaces) >= 2
    /\ HasId(dbWorkspaces, res.id)
    /\ At(res.workspace.settingsOverrides, <<"appearance", "theme">>) = Tok("light")
    /\ At(res.workspace.settingsOverrides, <<"appearance", "fontScale">>) = Num(120)
    /\ res.workspace.updatedAt # res.workspace.createdAt

\* the default workspace created by an update of the missing default, given
\* which fields count as provided
CreatedDefault(w, body, Provided(_)) ==
    /\ w.id = "default"
    /\ w.name = IF Provided(body.name) THEN body.name ELSE Tok("Default")
    /\ w.icon = IF Provided(body.icon) THEN body.icon ELSE Tok("globe")
    /\ w.settingsOverrides =
          IF Provided(body.settingsOverrides) THEN body.settingsOverrides ELSE EmptyObj
    /\ w.windowState =
          IF Provided(body.windowState) THEN body.windowState ELSE EmptyArr

UpdateOfMissing(Provided(_)) ==
    (res'.op = "PATCH" /\ ~HasId(dbWorkspaces, res'.id)) =>
        \A body \in PatchBodies : PatchWorkspace(res'.id, body) =>
            IF res'.id = "default"
            THEN /\ res'.status = 200
                 /\ CreatedDefault(res'.workspace, body, Provided)
                 /\ dbWorkspaces' = <<res'.workspace>> \o dbWorkspaces
            ELSE res'.status = 404 /\ dbWorkspaces' = dbWorkspaces

\* C9 as stated: an update of an id that is not stored creates the default
\* from the supplied fields, defaulting each field that is not supplied, when
\* the id is "default", and answers 404 without a write otherwise.
C9_MissingDefaultTakesSuppliedFields == [][UpdateOfMissing(Supplied)]_vars

\* C9 amended: a field is taken from the body when it is supplied and truthy;
\* an empty string or null is defaulted like a missing field.
C9_MissingDefaultTakesTruthyFields == [][UpdateOfMissing(Truthy)]_vars

\* the default was created by an update that supplied a name and nothing
\* else, in front of a workspace stored before it
C9_Witness ==
    /\ res.op = "PATCH" /\ res.id = "default" /\ res.status = 200
    /\ res.workspace.createdAt = res.workspace.updatedAt
    /\ res.workspace.name = Tok("Renamed")
    /\ res.workspace.icon = Tok("globe")
    /\ res.workspace.settingsOverrides = EmptyObj
    /\ res.workspace.windowState = EmptyArr
    /\ Len(dbWorkspaces) >= 2
    /\ dbWorkspaces[1] = res.workspace

-----------------------------------------------------------------------------
(* Settings: request inputs and specification *)

\* `settings` values of PATCH /api/user/settings bodies: missing, a string,
\* empty, fields of one section, another section, a null field, a null section
SettingsPayloads ==
    { Undefined, Tok("dark"), EmptyObj,
      Obj("appearance" :> Obj("fontScale" :> Num(120))),
      Obj("appearance" :> Obj("theme" :> Tok("dark"))),
      Obj("feedContent" :> Obj("dateFormat" :> Tok("us"))),
      Obj("appearance" :> Obj("theme" :> Null)),
      Obj("appearance" :> Null) }

\* updateSettings(section, updates) calls of the settings drawer
SettingsUpdates ==
    { <<"appearance", Obj("fontScale" :> Num(120))>>,
      <<"appearance", Obj("theme" :> Tok("oled-black"))>>,
      <<"feedContent", Obj("dateFormat" :> Tok("us"))>> }

SettingsNext ==
    \/ \E payload \in SettingsPayloads : PatchSettings(payload)
    \/ \E backendOk \in BOOLEAN : fetchSettings(backendOk)
    \/ \E u \in SettingsUpdates, backendOk \in BOOLEAN :
          updateSettings(u[1], u[2], backendOk)
    \/ \E backendOk \in BOOLEAN : resetSettings(backendOk)
    \/ \E o \in ProducibleOverrides(PostBodies, PatchBodies) :
          SettingsWithWorkspaceOverrides(o)

SpecSettings == Init /\ [][SettingsNext]_vars

-----------------------------------------------------------------------------
(* Settings: properties *)

\* every section and every field of the default schema has a value
DefaultPaths == PathsOf(DEFAULT_SETTINGS) \ {<< >>}

Total(tree) == \A p \in DefaultPaths : At(tree, p) \notin {Undefined, Null}

\* C3: the effective settings define every section and every field of the
\* default schema, whatever global settings and overrides the operations
\* have produced.
C3_EffectiveSettingsTotal == Total(settings)

Defines(tree, p) == At(tree, p) # Undefined

\* the leaf paths of the default schema
DefaultLeafPaths == LeafPaths(DEFAULT_SETTINGS)

\* merged layers `over` on top of `under` on top of the defaults
Layered(merged, under, over) ==
    LET namedOver  == TerminalPaths(over)
        namedUnder == TerminalPaths(under)
    IN
    /\ \A p \in LeafPaths(merged) :
          At(merged, p) = IF Defines(over, p) THEN At(over, p)
                          ELSE IF Defines(under, p) THEN At(under, p)
                          ELSE At(DEFAULT_SETTINGS, p)
    /\ \A p \in LeafPaths(over) : At(merged, p) = At(over, p)
    /\ \A p \in LeafPaths(under) :
          ~NamedBy(namedOver, p) => At(merged, p) = At(under, p)
    /\ \A p \in DefaultLeafPaths :
          (~NamedBy(namedOver, p) /\ ~NamedBy(namedUnder, p)) =>
              At(merged, p) = At(DEFAULT_SETTINGS, p)

\* C4: at every leaf path the effective settings hold the workspace
\* override's value if the override defines the path, else the global value
\* if global defines it, else the default; with empty global settings and the
\* override {appearance: {theme: "light"}} the theme is "light" and the
\* fontScale is the default 100.
C4_ThreeLevelPrecedence ==
    /\ Layered(settings, globalSettings, overrides)
    /\ (globalSettings = EmptyObj /\ overrides = OverridesTheme) =>
          /\ At(settings, <<"appearance", "theme">>) = Tok("light")
          /\ At(settings, <<"appearance", "fontScale">>) = Num(100)

\* the three layers disagree: the override wins for theme, global for
\* fontScale, the default for fontFamily
C4_Witness ==
    /\ At(globalSettings, <<"appearance", "theme">>) = Tok("oled-black")
    /\ At(globalSettings, <<"appearance", "fontScale">>) = Num(120)
    /\ overrides = OverridesTheme
    /\ At(settings, <<"appearance", "theme">>) = Tok("light")
    /\ At(settings, <<"appearance", "fontScale">>) = Num(120)
    /\ At(settings, <<"appearance", "fontFamily">>) = Tok("system-sans")

\* two patches of one section that name different fields
SiblingPatches(first, second) ==
    /\ \E section \in ObjectKeys(first) \cap ObjectKeys(second) :
          IsObject(Get(first, section)) /\ IsObject(Get(second, section))
    /\ \A p \in LeafPaths(first) : ~Named(second, p)

\* C6: every accepted settings PATCH is merged into the persisted settings
\* (fields the patch does not name keep their values), and after two
\* consecutive patches of different fields of one section the persisted
\* settings hold the fields of both with the patched values.
C6_SequentialPatchesMerge ==
    [][(res'.op = "PATCH_SETTINGS" /\ res'.status = 200) =>
          /\ IsDeepMergeOf(dbSettings', OrElse(dbSettings, EmptyObj), res'.req)
          /\ (res.op = "PATCH_SETTINGS" /\ res.status = 200
                /\ SiblingPatches(res.req, res'.req)) =>
                \A p \in LeafPaths(res.req) \cup LeafPaths(res'.req) :
                    At(dbSettings', p) = IF Defines(res'.req, p)
                                         THEN At(res'.req, p) ELSE At(res.req, p)]_vars

\* fontScale was patched, then theme: both are persisted, beside a field of
\* another section patched before them
C6_Witness ==
    /\ res.op = "PATCH_SETTINGS" /\ res.status = 200
    /\ res.req = Obj("appearance" :> Obj("theme" :> Tok("dark")))
    /\ At(dbSettings, <<"appearance", "fontScale">>) = Num(120)
    /\ At(dbSettings, <<"appearance", "theme">>) = Tok("dark")
    /\ At(dbSettings, <<"feedContent", "dateFormat">>) = Tok("us")

-----------------------------------------------------------------------------
(* Settings store alone: any client of PATCH /api/user/settings *)

\* `settings` values that are not JSON objects: null, numbers, a boolean, the
\* empty string, arrays (the missing value and a non-empty string are among
\* SettingsPayloads)
MalformedPayloads ==
    { Null, Num(0), Num(5), Bool(TRUE), Str(<< >>), EmptyArr, Arr(<<Tok("x")>>) }

StorePayloads == SettingsPayloads \cup MalformedPayloads

StoreNext ==
    \/ \E payload \in StorePayloads : PatchSettings(payload)
    \/ GetSettings

SpecStore == Init /\ [][StoreNext]_vars

\* C11: a settings PATCH whose payload is not a JSON object (absent, null, a
\* scalar or an array) is answered 400 and leaves the stored settings as they
\* were.
C11_NonObjectPayloadRejected ==
    [][\A payload \in StorePayloads :
          (~IsObject(payload) /\ PatchSettings(payload)) =>
              (res'.status = 400 /\ dbSettings' = dbSettings)]_vars

-----------------------------------------------------------------------------
(* deepMerge on its own: both implementations applied to a pair of trees *)

MergeKeys == {"a", "b"}

\* values that deepMerge never looks inside: a scalar, null, two arrays
MergeLeaves == { Num(1), Null, Arr(<<Num(1), Num(2)>>), Arr(<<Num(3)>>) }

\* nested objects: empty, one field, the same field with another value, a
\* sibling field, and two that nest once more
MergeObjects ==
    { EmptyObj,
      Obj("x" :> Num(1)), Obj("x" :> Num(2)), Obj("y" :> Num(2)),
      Obj("x" :> Obj("z" :> Num(1))), Obj("x" :> Obj("w" :> Num(2))) }

MergeValues == MergeLeaves \cup MergeObjects

\* every object whose keys are among MergeKeys and whose values are MergeValues
MergeTrees == {Obj(f) : f \in UNION {[K -> MergeValues] : K \in SUBSET MergeKeys}}

MergeImpls == {"frontend", "backend"}

MergeBy(impl, target, source) ==
    IF impl = "frontend" THEN deepMerge(target, source)
                         ELSE deepMergeBackend(target, source)

\* deepMerge(target, source)
ApplyMerge(impl) ==
    /\ mergeResult = NoMerge
    /\ mergeResult' = [impl |-> impl,
                       value |-> MergeBy(impl, mergeTarget, mergeSource),
                       again |-> FALSE]
    /\ UNCHANGED <<notMergeVars, mergeTarget, mergeSource>>

\* deepMerge(result, source): the same source merged into the result
ReapplyMerge ==
    /\ mergeResult.impl \in MergeImpls
    /\ ~mergeResult.again
    /\ mergeResult' = [mergeResult EXCEPT
                          !.value = MergeBy(mergeResult.impl, @, mergeSource),
                          !.again = TRUE]
    /\ UNCHANGED <<notMergeVars, mergeTarget, mergeSource>>

MergeInit ==
    /\ StoreInit
    /\ ProviderInit
    /\ AsyncIdle
    /\ RaceIdle
    /\ DesktopIdle
    /\ WindowIdle
    /\ SessionIdle
    /\ AccountIdle
    /\ mergeTarget \in MergeTrees
    /\ mergeSource \in MergeTrees
    /\ mergeResult = NoMerge

MergeNext ==
    \/ \E impl \in MergeImpls : ApplyMerge(impl)
    \/ ReapplyMerge

SpecMerge == MergeInit /\ [][MergeNext]_vars

\* C12: merge(D, A) has A's value at every leaf key of A and D's value at
\* every key of D that A does not contain, at the top level and at every
\* depth, and merge(D, {}) = D; for the frontend and the backend deepMerge.
C12_MergeKeepsAndOverrides ==
    (mergeResult.impl \in MergeImpls /\ ~mergeResult.again) =>
        LET merged == mergeResult.value IN
        /\ ObjectKeys(merged) = ObjectKeys(mergeTarget) \cup ObjectKeys(mergeSource)
        /\ \A key \in ObjectKeys(mergeSource) :
              ~IsObject(Get(mergeSource, key)) =>
                  Get(merged, key) = Get(mergeSource, key)
        /\ \A key \in ObjectKeys(mergeTarget) \ ObjectKeys(mergeSource) :
              Get(merged, key) = Get(mergeTarget, key)
        /\ IsDeepMergeOf(merged, mergeTarget, mergeSource)
        /\ mergeSource = EmptyObj => merged = mergeTarget

\* the backend merged {a: {y: 2}} into {a: {x: 1}, b: [1, 2]}
C12_Witness ==
    /\ mergeResult.impl = "backend"
    /\ mergeTarget = Obj("a" :> Obj("x" :> Num(1)) @@ "b" :> Arr(<<Num(1), Num(2)>>))
    /\ mergeSource = Obj("a" :> Obj("y" :> Num(2)))
    /\ mergeResult.value =
          Obj("a" :> Obj("x" :> Num(1) @@ "y" :> Num(2)) @@
              "b" :> Arr(<<Num(1), Num(2)>>))

\* C13: when source[key] is an array the result at key is exactly that
\* array, whatever target[key] was, and when target[key] is an array and
\* source[key] an object the object replaces the array: arrays are never
\* merged element-wise.
C13_ArraysReplaced ==
    (mergeResult.impl \in MergeImpls /\ ~mergeResult.again) =>
        \A key \in ObjectKeys(mergeSource) :
            LET sourceValue == Get(mergeSource, key)
                targetValue == Get(mergeTarget, key)
            IN  (IsArray(sourceValue) \/ (IsArray(targetValue) /\ IsObject(sourceValue)))
                    => Get(mergeResult.value, key) = sourceValue

\* the frontend merged the array [3] over the array [1, 2], and an object
\* over an array
C13_Witness ==
    /\ mergeResult.impl = "frontend"
    /\ Get(mergeTarget, "a") = Arr(<<Num(1), Num(2)>>)
    /\ Get(mergeSource, "a") = Arr(<<Num(3)>>)
    /\ Get(mergeTarget, "b") = Arr(<<Num(3)>>)
    /\ Get(mergeSource, "b") = Obj("x" :> Num(1))
    /\ mergeResult.value = mergeSource

\* what the merge did with the keys the source lacks and with the keys whose
\* source value is null or {}, given the targets an empty object replaces
NullAndEmptyOverwrite(EmptyReplaces(_)) ==
    (mergeResult.impl \in MergeImpls /\ ~mergeResult.again) =>
        LET merged == mergeResult.value IN
        /\ \A key \in ObjectKeys(mergeTarget) \ ObjectKeys(mergeSource) :
              Get(merged, key) = Get(mergeTarget, key)
        /\ \A key \in ObjectKeys(mergeSource) :
              /\ Get(mergeSource, key) = Null => Get(merged, key) = Null
              /\ Get(mergeSource, key) = EmptyObj =>
                    Get(merged, key) = IF EmptyReplaces(Get(mergeTarget, key))
                                       THEN EmptyObj
                                       ELSE Get(mergeTarget, key)

AnyTarget(targetValue) == TRUE

\* C14 as stated: a key absent from source leaves target[key] untouched; a
\* source value of null or {} replaces target[key], also when target[key] is
\* a non-empty object.
C14_NullAndEmptyReplace == NullAndEmptyOverwrite(AnyTarget)

NotAnObject(targetValue) == ~IsObject(targetValue)

\* C14 amended: an absent key leaves target[key] untouched and null replaces
\* it; {} replaces target[key] when that is absent, null, a scalar or an
\* array, and leaves it as it was when it is an object.
C14_NullReplacesEmptyMerges == NullAndEmptyOverwrite(NotAnObject)

\* the backend merged {a: {}, b: null} into {a: {x: 1}, b: {x: 1}}: a kept
\* its field, b became null
C14_Witness ==
    /\ mergeResult.impl = "backend"
    /\ mergeTarget = Obj("a" :> Obj("x" :> Num(1)) @@ "b" :> Obj("x" :> Num(1)))
    /\ mergeSource = Obj("a" :> EmptyObj @@ "b" :> Null)
    /\ mergeResult.value = Obj("a" :> Obj("x" :> Num(1)) @@ "b" :> Null)

\* C15: merging the same patch into the result once more changes nothing,
\* merge(merge(T, P), P) = merge(T, P), for the frontend and the backend
\* deepMerge.
C15_ReapplyIsNoOp ==
    [][(mergeResult.impl \in MergeImpls /\ ~mergeResult.again /\ mergeResult'.again) =>
            /\ mergeResult'.value = mergeResult.value
            /\ mergeResult'.value =
                  MergeBy(mergeResult.impl, mergeResult.value, mergeSource)]_vars

\* the backend merged a patch with a nested field, null and an array twice
\* into a tree that it changed the first time
C15_Witness ==
    /\ mergeResult.impl = "backend"
    /\ mergeResult.again
    /\ mergeTarget = Obj("a" :> Obj("x" :> Obj("z" :> Num(1))) @@
                         "b" :> Arr(<<Num(1), Num(2)>>))
    /\ mergeSource = Obj("a" :> Obj("x" :> Obj("w" :> Num(2))) @@ "b" :> Arr(<<Num(3)>>))
    /\ mergeResult.value =
          Obj("a" :> Obj("x" :> Obj("z" :> Num(1) @@ "w" :> Num(2))) @@
              "b" :> Arr(<<Num(3)>>))

\* the same for the store: an accepted settings PATCH that repeats the
\* payload of the accepted PATCH just before it leaves the persisted settings
\* as they are
RepeatedPatchIsNoOp ==
    [][(/\ res.op = "PATCH_SETTINGS" /\ res.status = 200
        /\ res'.op = "PATCH_SETTINGS" /\ res'.status = 200
        /\ res'.req = res.req) => dbSettings' = dbSettings]_vars

-----------------------------------------------------------------------------
(* Window layout conversion: components/dashboard/types.ts 37-60 *)

\* the fields of SerializedWindowState (types.ts 24-34)
SerializedFields == {"id", "type", "title", "x", "y", "width", "height", "isMinimized"}

\* mutant of serializeWindowState: isMinimized is not copied
serializeWindowStateDropsMinimized(window) ==
    Obj([key \in SerializedFields \ {"isMinimized"} |-> Get(window, key)])

\* serializeWindowState (types.ts 37-48): the eight fields, isMinimized
\* undefined when the window has none
serializeWindowState(window) ==
    Obj([key \in SerializedFields |-> Get(window, key)])

\* deserializeWindowState (types.ts 51-60): { ...serialized, isOpen: true, zIndex }
deserializeWindowState(serialized, zIndex) ==
    WithKey(WithKey(serialized, "isOpen", Bool(TRUE)), "zIndex", Num(zIndex))

\* windows restored from one workspace: the restore effect gives the window
\* at index i the stacking order 10 + i (page.tsx 263-265)
MaxWindows == 2

StackingOrders == {10 + index : index \in 0..(MaxWindows - 1)}

\* window states of the desktop: both types, open or closed, minimized, not
\* minimized or without the optional field, two positions, two sizes, two
\* stacking orders
WindowStates ==
    { LET window ==
            Obj("id" :> Tok(t[1]) @@ "type" :> Tok(t[2]) @@ "title" :> Tok(t[3]) @@
                "isOpen" :> Bool(isOpen) @@ "zIndex" :> Num(zIndex) @@
                "x" :> Num(position[1]) @@ "y" :> Num(position[2]) @@
                "width" :> Num(size[1]) @@ "height" :> Num(size[2]))
      IN  IF isMinimized = Undefined
          THEN window
          ELSE WithKey(window, "isMinimized", isMinimized) :
        t \in {<<"streaming-1", "streaming", "Feed">>,
               <<"calendar-1", "calendar", "Calendar">>},
        isOpen \in BOOLEAN,
        isMinimized \in {Undefined, Bool(TRUE), Bool(FALSE)},
        zIndex \in {10, 12},
        position \in {<<0, 0>>, <<40, 60>>},
        size \in {<<400, 300>>, <<560, 420>>} }

\* windows.map(serializeWindowState) for one window (page.tsx 288)
SerializeWindow ==
    /\ desktopWindow # NoWindow
    /\ savedWindow' = serializeWindowState(desktopWindow)
    /\ UNCHANGED <<notWindowVars, desktopWindow, restoredWindow>>

\* deserializeWindowState(serialized, 10 + index) (page.tsx 263-265)
RestoreWindow(zIndex) ==
    /\ savedWindow # NoWindow
    /\ restoredWindow' = deserializeWindowState(savedWindow, zIndex)
    /\ UNCHANGED <<notWindowVars, desktopWindow, savedWindow>>

WindowInit ==
    /\ StoreInit
    /\ ProviderInit
    /\ AsyncIdle
    /\ RaceIdle
    /\ DesktopIdle
    /\ MergeIdle
    /\ SessionIdle
    /\ AccountIdle
    /\ desktopWindow \in WindowStates
    /\ savedWindow = NoWindow
    /\ restoredWindow = NoWindow

WindowNext ==
    \/ SerializeWindow
    \/ \E zIndex \in StackingOrders : RestoreWindow(zIndex)

SpecWindow == WindowInit /\ [][WindowNext]_vars

\* C16: deserializeWindowState(serializeWindowState(w), z) has the id, type,
\* title, x, y, width, height and isMinimized of w, zIndex z, and isOpen true
\* whatever w.isOpen was.
C16_WindowRoundTrip ==
    [][\A zIndex \in StackingOrders :
          RestoreWindow(zIndex) =>
              /\ savedWindow = serializeWindowState(desktopWindow)
              /\ \A key \in SerializedFields :
                    Get(restoredWindow', key) = Get(desktopWindow, key)
              /\ Get(restoredWindow', "zIndex") = Num(zIndex)
              /\ Get(restoredWindow', "isOpen") = Bool(TRUE)
              /\ ObjectKeys(restoredWindow') = SerializedFields \cup {"isOpen", "zIndex"}]_vars

\* a closed, minimized window that had stacking order 12 was restored open
\* with stacking order 11
C16_Witness ==
    /\ desktopWindow # NoWindow
    /\ restoredWindow # NoWindow
    /\ Get(desktopWindow, "isOpen") = Bool(FALSE)
    /\ Get(desktopWindow, "isMinimized") = Bool(TRUE)
    /\ Get(desktopWindow, "zIndex") = Num(12)
    /\ Get(restoredWindow, "isOpen") = Bool(TRUE)
    /\ Get(restoredWindow, "isMinimized") = Bool(TRUE)
    /\ Get(restoredWindow, "zIndex") = Num(11)

-----------------------------------------------------------------------------
(* Authentication middleware, backend: index.ts 414-434 *)

\* a JWT signed with JWT_SECRET for the user, not expired
ValidToken == Tok("jwt-valid")

\* jwt.verify(token, JWT_SECRET) returns (index.ts 428)
jwtVerifies(token) == token = ValidToken

ExpiredToken == Tok("jwt-expired")
ForgedToken == Tok("jwt-forged")

AuthHeader(scheme, token) == [scheme |-> scheme, token |-> token]

\* credentials of a request: <<req.cookies?.soapbox_auth_token,
\* req.headers.authorization>>.  Nothing; a header of another scheme; a Bearer
\* header with a valid, a forged and an empty token; a valid and an expired
\* cookie; an expired cookie beside a valid header; a valid cookie beside a
\* forged header
Credentials ==
    { <<Undefined, Undefined>>,
      <<Undefined, AuthHeader("Basic ", ValidToken)>>,
      <<Undefined, AuthHeader("Bearer ", ValidToken)>>,
      <<Undefined, AuthHeader("Bearer ", ForgedToken)>>,
      <<Undefined, AuthHeader("Bearer ", Str(<< >>))>>,
      <<ValidToken, Undefined>>,
      <<ExpiredToken, Undefined>>,
      <<ExpiredToken, AuthHeader("Bearer ", ValidToken)>>,
      <<ValidToken, AuthHeader("Bearer ", ForgedToken)>> }

\* authHeader?.startsWith('Bearer ') ? authHeader.slice(7) : null (index.ts 419)
HeaderToken(authHeader) ==
    IF authHeader # Undefined /\ authHeader.scheme = "Bearer "
    THEN authHeader.token
    ELSE Null

\* mutant of authenticateToken: a token that fails verification is let through
authenticateTokenFailsOpen(cookieToken, authHeader) ==
    IF ~Truthy(OrElse(cookieToken, HeaderToken(authHeader))) THEN 401 ELSE 200

\* authenticateToken (index.ts 414-434): the status it answers, 200 standing
\* for the call of next()
authenticateToken(cookieToken, authHeader) ==
    LET token == OrElse(cookieToken, HeaderToken(authHeader)) IN
    IF ~Truthy(token) THEN 401
    ELSE IF jwtVerifies(token) THEN 200
    ELSE 403

\* a route registered behind authenticateToken: the handler runs only after
\* next()
Authenticated(cookieToken, authHeader, op, id, Handler) ==
    LET status == authenticateToken(cookieToken, authHeader) IN
    IF status = 200
    THEN Handler
    ELSE /\ res' = ErrorResponse(op, id, status)
         /\ UNCHANGED <<registryVars, settingsVars, otherVars>>

\* request bodies of the authenticated routes
AuthSettingsPayloads == {Obj("appearance" :> Obj("fontScale" :> Num(120)))}
AuthPostBodies == {PostBody(Str(<<" ", "W", " ">>), Tok("star"), OverridesTheme)}
AuthPatchBodies == {PatchBody(Tok("Renamed"), Undefined, OverridesFont, Arr(<<WindowA>>))}

\* the five routes of the settings and workspace API (index.ts 441, 484, 552,
\* 598, 669), called with any credentials
GetSettingsRoute(cookieToken, authHeader) ==
    Authenticated(cookieToken, authHeader, "GET", "", GetSettings)

PatchSettingsRoute(cookieToken, authHeader, payload) ==
    Authenticated(cookieToken, authHeader, "PATCH_SETTINGS", "", PatchSettings(payload))

PostWorkspaceRoute(cookieToken, authHeader, body) ==
    Authenticated(cookieToken, authHeader, "POST", "", PostWorkspace(body))

PatchWorkspaceRoute(cookieToken, authHeader, id, body) ==
    Authenticated(cookieToken, authHeader, "PATCH", id, PatchWorkspace(id, body))

DeleteWorkspaceRoute(cookieToken, authHeader, id) ==
    Authenticated(cookieToken, authHeader, "DELETE", id, DeleteWorkspace(id))

AuthNext ==
    \E c \in Credentials :
        \/ GetSettingsRoute(c[1], c[2])
        \/ \E payload \in AuthSettingsPayloads : PatchSettingsRoute(c[1], c[2], payload)
        \/ \E body \in AuthPostBodies : PostWorkspaceRoute(c[1], c[2], body)
        \/ \E id \in RequestIds, body \in AuthPatchBodies :
              PatchWorkspaceRoute(c[1], c[2], id, body)
        \/ \E id \in RequestIds : DeleteWorkspaceRoute(c[1], c[2], id)

SpecAuth == Init /\ [][AuthNext]_vars

\* the request carries no valid token, in the cookie or as a Bearer token
NoValidToken(cookieToken, authHeader) ==
    /\ cookieToken # ValidToken
    /\ HeaderToken(authHeader) # ValidToken

\* the request was refused and nothing of the user's row was read or written
Refused ==
    /\ res'.status \in {401, 403}
    /\ res'.settings = Undefined
    /\ res'.workspace = Undefined
    /\ res'.workspaces = << >>
    /\ UNCHANGED <<dbSettings, dbWorkspaces, now, nextUuid>>

\* the steps of the route that answers with the method and id of res', called
\* with these credentials
RouteAnswering(cookieToken, authHeader) ==
    CASE res'.op = "GET" -> GetSettingsRoute(cookieToken, authHeader)
      [] res'.op = "PATCH_SETTINGS" ->
            \E payload \in AuthSettingsPayloads :
                PatchSettingsRoute(cookieToken, authHeader, payload)
      [] res'.op = "POST" ->
            \E body \in AuthPostBodies : PostWorkspaceRoute(cookieToken, authHeader, body)
      [] res'.op = "PATCH" ->
            \E body \in AuthPatchBodies :
                PatchWorkspaceRoute(cookieToken, authHeader, res'.id, body)
      [] res'.op = "DELETE" -> DeleteWorkspaceRoute(cookieToken, authHeader, res'.id)
      [] OTHER -> FALSE

\* C17: every settings and workspace endpoint called with no token or with an
\* invalid token answers an authentication error (401 or 403), returns nothing
\* of the user's settings and workspaces, and writes nothing.
C17_FailsClosed ==
    [][\A c \in Credentials :
          (NoValidToken(c[1], c[2]) /\ RouteAnswering(c[1], c[2])) => Refused]_vars

\* the DELETE of a stored workspace was refused with 403, with settings and
\* workspaces stored
C17_Witness ==
    /\ res.op = "DELETE" /\ res.status = 403
    /\ HasId(dbWorkspaces, res.id)
    /\ dbSettings # Null

-----------------------------------------------------------------------------
(* Settings: reset *)

\* C19: a resetSettings call that reaches the backend (the provider is not in
\* local-only mode and the PATCH is answered 200) leaves the persisted global
\* settings empty, so that the next GET returns empty global settings and the
\* effective settings are the defaults under the workspace overrides
C19_ResetEmptiesPersistedSettings ==
    [][(~useLocalStorage /\ resetSettings(TRUE))
          => /\ OrElse(dbSettings', EmptyObj) = EmptyObj
             /\ Resolve(OrElse(dbSettings', EmptyObj), overrides')
                    = Resolve(EmptyObj, overrides')]_vars

-----------------------------------------------------------------------------
(* Workspaces provider: the client session of a signed-in user *)

\* currentWorkspace (part_005 100-106)
currentWorkspace ==
    IF HasId(clientWorkspaces, currentWorkspaceId)
    THEN clientWorkspaces[findIndex(clientWorkspaces, currentWorkspaceId)]
    ELSE IF Len(clientWorkspaces) >= 1
    THEN clientWorkspaces[1]
    ELSE DEFAULT_WORKSPACE

\* the id in the URL of the provider's PATCH requests (part_005 320-322)
addressedWorkspaceId == currentWorkspaceId

\* setCurrentWorkspaceId(id): a changed id re-creates fetchWorkspaces
\* (dependency list, part_005 165), and the effect at part_005 168-170 calls
\* the new callback, which has captured the new id
Refetch(fetches, id) ==
    IF id # currentWorkspaceId THEN fetches \cup {id} ELSE fetches

\* the mount effects: the remembered id is loaded (part_005 109-114) and
\* fetchWorkspaces is called with the id of the first render captured
\* (part_005 168-170)
Mount ==
    /\ ~mounted
    /\ mounted' = TRUE
    /\ currentWorkspaceId' =
          IF storedWorkspaceId # "" THEN storedWorkspaceId ELSE currentWorkspaceId
    /\ pendingFetches' = {currentWorkspaceId, currentWorkspaceId'}
    /\ UNCHANGED <<clientWorkspaces, storedWorkspaceId, registryVars, res,
                   notSessionVars>>

\* the page is loaded again: the provider is constructed anew, localStorage
\* is kept, and what the old page had in flight is dropped
Reload ==
    /\ mounted
    /\ clientWorkspaces' = <<DEFAULT_WORKSPACE>>
    /\ currentWorkspaceId' = "default"
    /\ pendingFetches' = {}
    /\ mounted' = FALSE
    /\ UNCHANGED <<storedWorkspaceId, registryVars, res, notSessionVars>>

\* a fetchWorkspaces call settles (part_005 117-165); capturedId: the
\* currentWorkspaceId of the render that created the callback; backendOk: the
\* GET was answered 200
fetchWorkspaces(capturedId, backendOk) ==
    /\ capturedId \in pendingFetches
    /\ IF backendOk
       THEN LET fetched == fetchedWorkspaces(ListWorkspaces(dbWorkspaces))
                currentExists == HasId(fetched, capturedId)
            IN  /\ res' = Response("GET", "", 200, OrElse(dbSettings, EmptyObj),
                                   Undefined, ListWorkspaces(dbWorkspaces))
                /\ clientWorkspaces' = fetched
                /\ IF currentExists
                   THEN /\ pendingFetches' = pendingFetches \ {capturedId}
                        /\ UNCHANGED <<currentWorkspaceId, storedWorkspaceId>>
                   ELSE /\ currentWorkspaceId' = "default"
                        /\ storedWorkspaceId' = "default"
                        /\ pendingFetches' =
                              Refetch(pendingFetches \ {capturedId}, "default")
       ELSE /\ clientWorkspaces' = <<DEFAULT_WORKSPACE>>
            /\ pendingFetches' = pendingFetches \ {capturedId}
            /\ UNCHANGED <<currentWorkspaceId, storedWorkspaceId, res>>
    /\ UNCHANGED <<mounted, registryVars, notSessionVars>>

\* switchWorkspace (part_005 173-176)
switchWorkspace(workspaceId) ==
    /\ mounted
    /\ currentWorkspaceId' = workspaceId
    /\ storedWorkspaceId' = workspaceId
    /\ pendingFetches' = Refetch(pendingFetches, workspaceId)
    /\ UNCHANGED <<clientWorkspaces, mounted, registryVars, res, notSessionVars>>

\* createWorkspace (part_005 179-211) with the POST it sends; backendOk: the
\* request reached the backend
createWorkspace(name, icon, backendOk) ==
    LET body == PostBody(name, icon, Undefined) IN
    /\ mounted
    /\ IF backendOk /\ ~NameRejected(body.name)
       THEN /\ nextUuid < MaxUuid
            /\ now < MaxClock
            /\ LET newWorkspace == NewWorkspace(body, randomUUID(nextUuid + 1), now)
               IN  /\ dbWorkspaces' = Append(dbWorkspaces, newWorkspace)
                   /\ res' = Response("POST", "", 201, Undefined, newWorkspace, << >>)
                   /\ clientWorkspaces' = Append(clientWorkspaces, newWorkspace)
            /\ nextUuid' = nextUuid + 1
            /\ now' = now + 1
       ELSE UNCHANGED <<registryVars, res, clientWorkspaces>>
    /\ UNCHANGED <<currentWorkspaceId, storedWorkspaceId, pendingFetches, mounted,
                   notSessionVars>>

\* deleteWorkspace (part_005 267-303) with the DELETE it sends; the default
\* is refused before any request; backendOk: the request reached the backend
deleteWorkspace(workspaceId, backendOk) ==
    /\ mounted
    /\ workspaceId # "default"
    /\ IF backendOk /\ HasId(dbWorkspaces, workspaceId)
       THEN /\ now < MaxClock
            /\ dbWorkspaces' = FilterOut(dbWorkspaces, workspaceId)
            /\ res' = Response("DELETE", workspaceId, 200, Undefined, Undefined, << >>)
            /\ now' = now + 1
            /\ clientWorkspaces' = FilterOut(clientWorkspaces, workspaceId)
            /\ IF currentWorkspaceId = workspaceId
               THEN /\ currentWorkspaceId' = "default"
                    /\ storedWorkspaceId' = "default"
                    /\ pendingFetches' = Refetch(pendingFetches, "default")
               ELSE UNCHANGED <<currentWorkspaceId, storedWorkspaceId, pendingFetches>>
            /\ UNCHANGED nextUuid
       ELSE UNCHANGED <<registryVars, res, clientWorkspaces, currentWorkspaceId,
                        storedWorkspaceId, pendingFetches>>
    /\ UNCHANGED <<mounted, notSessionVars>>

\* names typed into the workspace selector, trimmed by handleCreate
\* (SettingsDrawer.tsx 895-897)
SessionNames == {Str(<<"W">>)}

\* ids of the workspaces the selector lists (SettingsDrawer.tsx 887-940)
ListedIds == {clientWorkspaces[i].id : i \in DOMAIN clientWorkspaces}

\* one page of one user; the last disjunct is the same user deleting a
\* workspace from another device
SessionNext ==
    \/ Mount
    \/ Reload
    \/ \E capturedId \in RequestIds, backendOk \in BOOLEAN :
          fetchWorkspaces(capturedId, backendOk)
    \/ \E workspaceId \in ListedIds : switchWorkspace(workspaceId)
    \/ \E name \in SessionNames, backendOk \in BOOLEAN :
          createWorkspace(name, Undefined, backendOk)
    \/ \E workspaceId \in RequestIds, backendOk \in BOOLEAN :
          deleteWorkspace(workspaceId, backendOk)
    \/ \E id \in RequestIds : DeleteWorkspace(id)

SpecSession == Init /\ [][SessionNext]_vars

\* C18: once the mount effects have run and no fetch is in flight, the active
\* workspace is a member of the client's list, and when the remembered id is
\* not the id of a listed workspace both the active workspace and the id the
\* server is addressed with are "default"
C18_ActiveWorkspaceExists ==
    (mounted /\ pendingFetches = {}) =>
        /\ \E i \in DOMAIN clientWorkspaces : clientWorkspaces[i] = currentWorkspace
        /\ ~HasId(clientWorkspaces, storedWorkspaceId) =>
              /\ currentWorkspace.id = "default"
              /\ addressedWorkspaceId = "default"

\* the first half of C18 alone
ActiveWorkspaceListed ==
    \E i \in DOMAIN clientWorkspaces : clientWorkspaces[i] = currentWorkspace

\* the active workspace object is the default whenever the active id is not listed
ActiveObjectDefaults ==
    ~HasId(clientWorkspaces, currentWorkspaceId) => currentWorkspace.id = "default"

-----------------------------------------------------------------------------
(* Accounts: register, verify-email, resend-verification and login *)

\* String.prototype.toLowerCase, over the letters of the addresses below
LowerCase(c) == IF c = "A" THEN "a" ELSE IF c = "B" THEN "b" ELSE c

toLowerCase(s) == [i \in DOMAIN s |-> LowerCase(s[i])]

\* bcrypt.hash(password, 12) and bcrypt.compare (index.ts 173, 352)
bcryptHash(password) == [bcrypt |-> password.s]

bcryptCompare(password, hash) == hash = bcryptHash(password)

\* a row of the User table
User(email, password, emailVerified) ==
    [email |-> email, password |-> password, emailVerified |-> emailVerified]

HasUser(email) == \E u \in users : u.email = email

\* prisma.user.findUnique({ where: { email } })
findUser(email) == CHOOSE u \in users : u.email = email

\* a row of the VerificationToken table
VerificationToken(identifier, token, expires) ==
    [identifier |-> identifier, token |-> token, expires |-> expires]

\* generateVerificationToken() (index.ts 99-101): the n-th token handed out;
\* tokens are never repeated
generateVerificationToken(n) == Tok("vt-" \o ToString(n))

\* prisma.verificationToken.findUnique({ where: { token } })
HasToken(token) == \E vt \in verificationTokens : vt.token = token

findToken(token) == CHOOSE vt \in verificationTokens : vt.token = token

\* tokens live 24 hours (index.ts 193): one tick of the clock
TokenLifetime == 1

\* password.length < 6 (index.ts 157)
MinPasswordLength == 6

\* at most this many verification tokens are handed out
MaxTokens == 2

\* the clock of the account endpoints stops here
MaxAccountClock == 2

AuthResponse(op, status, code, email, password, token) ==
    [op |-> op, status |-> status, code |-> code, email |-> email,
     password |-> password, token |-> token]

\* POST /api/auth/register (index.ts 149-222)
register(email, password) ==
    IF ~Truthy(email) \/ ~Truthy(password)
    THEN /\ authRes' = AuthResponse("register", 400, "", email, password, Undefined)
         /\ UNCHANGED <<users, verificationTokens, issuedTokens, verifyLog, now,
                        notAccountVars>>
    ELSE IF Len(password.s) < MinPasswordLength
    THEN /\ authRes' = AuthResponse("register", 400, "", email, password, Undefined)
         /\ UNCHANGED <<users, verificationTokens, issuedTokens, verifyLog, now,
                        notAccountVars>>
    ELSE IF HasUser(toLowerCase(email.s))
    THEN /\ authRes' = AuthResponse("register", 400, "", email, password, Undefined)
         /\ UNCHANGED <<users, verificationTokens, issuedTokens, verifyLog, now,
                        notAccountVars>>
    ELSE /\ issuedTokens < MaxTokens
         /\ users' = users \cup {User(toLowerCase(email.s), bcryptHash(password), Null)}
         /\ verificationTokens' = verificationTokens \cup
               {VerificationToken(toLowerCase(email.s),
                                  generateVerificationToken(issuedTokens + 1),
                                  now + TokenLifetime)}
         /\ issuedTokens' = issuedTokens + 1
         /\ authRes' = AuthResponse("register", 201, "", email, password, Undefined)
         /\ UNCHANGED <<verifyLog, now, notAccountVars>>

\* mutant of TokensAfterUse: the used token stays in the table
TokensAfterUseKept(tokens, verificationToken) == tokens

\* prisma.verificationToken.delete({ where: { token } }) after a successful
\* verification (index.ts 262)
TokensAfterUse(tokens, verificationToken) == tokens \ {verificationToken}

\* POST /api/auth/verify-email (index.ts 225-274)
verifyEmail(token) ==
    IF ~Truthy(token)
    THEN /\ authRes' = AuthResponse("verify-email", 400, "", Undefined, Undefined, token)
         /\ UNCHANGED <<users, verificationTokens, issuedTokens, verifyLog, now,
                        notAccountVars>>
    ELSE IF ~HasToken(token)
    THEN /\ authRes' = AuthResponse("verify-email", 400, "", Undefined, Undefined, token)
         /\ UNCHANGED <<users, verificationTokens, issuedTokens, verifyLog, now,
                        notAccountVars>>
    ELSE LET verificationToken == findToken(token) IN
         IF verificationToken.expires < now
         THEN /\ verificationTokens' = verificationTokens \ {verificationToken}
              /\ authRes' = AuthResponse("verify-email", 400, "", Undefined, Undefined,
                                         token)
              /\ UNCHANGED <<users, issuedTokens, verifyLog, now, notAccountVars>>
         ELSE IF ~HasUser(verificationToken.identifier)
         THEN /\ authRes' = AuthResponse("verify-email", 500, "", Undefined, Undefined,
                                         token)
              /\ UNCHANGED <<users, verificationTokens, issuedTokens, verifyLog, now,
                             notAccountVars>>
         ELSE LET user == findUser(verificationToken.identifier) IN
              /\ users' = (users \ {user})
                            \cup {[user EXCEPT !.emailVerified = Date(now)]}
              /\ verificationTokens' =
                    TokensAfterUse(verificationTokens, verificationToken)
              /\ authRes' = AuthResponse("verify-email", 200, "",
                                         Str(verificationToken.identifier), Undefined,
                                         token)
              /\ verifyLog' = verifyLog \cup {verificationToken.identifier}
              /\ UNCHANGED <<issuedTokens, now, notAccountVars>>

\* POST /api/auth/resend-verification (index.ts 277-322)
resendVerification(email) ==
    IF ~Truthy(email)
    THEN /\ authRes' = AuthResponse("resend-verification", 400, "", email, Undefined,
                                    Undefined)
         /\ UNCHANGED <<users, verificationTokens, issuedTokens, verifyLog, now,
                        notAccountVars>>
    ELSE IF ~HasUser(toLowerCase(email.s))
    THEN /\ authRes' = AuthResponse("resend-verification", 200, "", email, Undefined,
                                    Undefined)
         /\ UNCHANGED <<users, verificationTokens, issuedTokens, verifyLog, now,
                        notAccountVars>>
    ELSE IF Truthy(findUser(toLowerCase(email.s)).emailVerified)
    THEN /\ authRes' = AuthResponse("resend-verification", 400, "", email, Undefined,
                                    Undefined)
         /\ UNCHANGED <<users, verificationTokens, issuedTokens, verifyLog, now,
                        notAccountVars>>
    ELSE /\ issuedTokens < MaxTokens
         /\ verificationTokens' =
               {vt \in verificationTokens : vt.identifier # toLowerCase(email.s)}
               \cup {VerificationToken(toLowerCase(email.s),
                                       generateVerificationToken(issuedTokens + 1),
                                       now + TokenLifetime)}
         /\ issuedTokens' = issuedTokens + 1
         /\ authRes' = AuthResponse("resend-verification", 200, "", email, Undefined,
                                    Undefined)
         /\ UNCHANGED <<users, verifyLog, now, notAccountVars>>

\* mutant of loginStatus: the emailVerified check is missing
loginStatusUnverified(user, password) ==
    IF ~bcryptCompare(password, user.password) THEN 401 ELSE 200

\* the status POST /api/auth/login answers for an existing user
\* (index.ts 343-356)
loginStatus(user, password) ==
    IF ~Truthy(user.emailVerified) THEN 403
    ELSE IF ~bcryptCompare(password, user.password) THEN 401
    ELSE 200

\* POST /api/auth/login (index.ts 325-387)
login(email, password) ==
    /\ IF ~Truthy(email) \/ ~Truthy(password)
       THEN authRes' = AuthResponse("login", 400, "", email, password, Undefined)
       ELSE IF ~HasUser(toLowerCase(email.s))
       THEN authRes' = AuthResponse("login", 401, "", email, password, Undefined)
       ELSE LET status == loginStatus(findUser(toLowerCase(email.s)), password) IN
            authRes' = AuthResponse("login", status,
                                    IF status = 403 THEN "EMAIL_NOT_VERIFIED" ELSE "",
                                    email, password,
                                    IF status = 200 THEN ValidToken ELSE Undefined)
    /\ UNCHANGED <<users, verificationTokens, issuedTokens, verifyLog, now,
                   notAccountVars>>

\* time passes: `new Date()` (index.ts 243) reads a later clock
ClockAdvances ==
    /\ now < MaxAccountClock
    /\ now' = now + 1
    /\ UNCHANGED <<accountVars, notAccountVars>>

\* `email` of the request bodies: missing, two addresses, and one of them
\* in capitals
Emails == {Undefined, Str(<<"a">>), Str(<<"A">>), Str(<<"b">>)}

\* the password the accounts are registered with
Secret == Str(<<"s", "e", "c", "r", "e", "t">>)

\* `password` of the login bodies: empty, the registered one, and another one
Passwords == {Str(<< >>), Secret, Str(<<"w", "r", "o", "n", "g", "1">>)}

\* `password` of the register bodies: missing, too short, long enough
RegisterPasswords == {Undefined, Str(<<"a", "b", "c">>), Secret}

\* `token` of verify-email bodies: missing, one never handed out, and every
\* token handed out
RequestTokens ==
    {Undefined} \cup {generateVerificationToken(n) : n \in 0..MaxTokens}

AccountNext ==
    \/ \E email \in Emails, password \in RegisterPasswords : register(email, password)
    \/ \E token \in RequestTokens : verifyEmail(token)
    \/ \E email \in Emails : resendVerification(email)
    \/ \E email \in Emails, password \in Passwords : login(email, password)
    \/ ClockAdvances

SpecAccount == Init /\ [][AccountNext]_vars

SignedIn ==
    /\ authRes.op = "login"
    /\ authRes.status = 200
    /\ authRes.token = ValidToken

-----------------------------------------------------------------------------
(* Accounts: verification tokens *)

\* the token is stored and has not expired (index.ts 234-243)
Redeemable(token) ==
    /\ Truthy(token)
    /\ HasToken(token)
    /\ ~(findToken(token).expires < now)

\* the last request redeemed this token
Redeemed(token) ==
    /\ authRes.op = "verify-email"
    /\ authRes.status = 200
    /\ authRes.token = token

\* C21: a verify-email request with a stored, unexpired token is answered
\* 200, marks the user of the token verified and deletes the token; with any
\* other token it is answered 400 and leaves every user as it was, and an
\* expired token is deleted by the attempt; once a token was redeemed it is
\* never stored again, so every later request with it is answered 400
C21_TokenVerifiesAtMostOnce ==
    /\ [][\A token \in RequestTokens :
            verifyEmail(token) =>
                IF Redeemable(token)
                THEN /\ authRes'.status = 200
                     /\ \E u \in users' :
                           /\ u.email = findToken(token).identifier
                           /\ Truthy(u.emailVerified)
                     /\ \A vt \in verificationTokens' : vt.token # token
                ELSE /\ authRes'.status = 400
                     /\ users' = users
                     /\ verifyLog' = verifyLog
                     /\ \A vt \in verificationTokens' : vt.token # token]_vars
    /\ \A token \in RequestTokens :
          [](Redeemed(token) => [](~Redeemable(token)))

\* the only token handed out was redeemed, and a later request with it was
\* refused
C21_Witness ==
    /\ issuedTokens = 1
    /\ verifyLog # {}
    /\ authRes.op = "verify-email"
    /\ authRes.status = 400
    /\ authRes.token = generateVerificationToken(1)

\* an expired token was refused and deleted, and its user is not verified
ExpiredTokenRefused ==
    /\ issuedTokens = 1
    /\ verifyLog = {}
    /\ users # {}
    /\ verificationTokens = {}
    /\ authRes.op = "verify-email"
    /\ authRes.status = 400
    /\ authRes.token = generateVerificationToken(1)

-----------------------------------------------------------------------------
(* The page and the backend with requests in flight *)

\* at most this many fetches are started
MaxFetches == 2

\* a GET /api/user/settings of the page: n-th fetch started, by fetchSettings
\* ("settings") or fetchWorkspaces ("workspaces"), with the currentWorkspaceId
\* the callback captured; once answered, what the backend returned
Fetch(n, kind, capturedId, answered, ok, data, list) ==
    [n |-> n, kind |-> kind, capturedId |-> capturedId, answered |-> answered,
     ok |-> ok, settings |-> data, workspaces |-> list]

\* fetchSettings (SettingsContext.tsx 168-186) or fetchWorkspaces (part_005
\* 117-130) is called and sends its request; both run again whenever the
\* session object changes, fetchWorkspaces also when currentWorkspaceId does
StartFetch(kind) ==
    /\ initiated < MaxFetches
    /\ initiated' = initiated + 1
    /\ inFlight' = inFlight \cup
          {Fetch(initiated + 1, kind, currentWorkspaceId, FALSE, FALSE, Undefined, << >>)}
    /\ UNCHANGED <<lastApplied, coreVars, mergeVars, windowVars, sessionVars,
                   accountVars, raceVars, desktopVars>>

\* the backend answers a fetch (index.ts 441-481), or the request fails
AnswerFetch(f, backendOk) ==
    /\ f \in inFlight
    /\ ~f.answered
    /\ inFlight' = (inFlight \ {f}) \cup
          {IF backendOk
           THEN Fetch(f.n, f.kind, f.capturedId, TRUE, TRUE,
                      OrElse(dbSettings, EmptyObj), ListWorkspaces(dbWorkspaces))
           ELSE Fetch(f.n, f.kind, f.capturedId, TRUE, FALSE, Undefined, << >>)}
    /\ UNCHANGED <<initiated, lastApplied, coreVars, mergeVars, windowVars,
                   sessionVars, accountVars, raceVars, desktopVars>>

\* the start number of the response applied last
Applied(f) ==
    IF f.ok THEN [lastApplied EXCEPT ![f.kind] = f.n] ELSE lastApplied

\* fetchSettings resumes with its response (SettingsContext.tsx 188-207)
SettleFetchSettings(f) ==
    /\ f \in inFlight
    /\ f.answered
    /\ f.kind = "settings"
    /\ inFlight' = inFlight \ {f}
    /\ lastApplied' = Applied(f)
    /\ IF f.ok
       THEN /\ globalSettings' = OrElse(f.settings, EmptyObj)
            /\ useLocalStorage' = FALSE
       ELSE /\ globalSettings' = loadFromLocalStorage
            /\ useLocalStorage' = TRUE
    /\ UNCHANGED <<initiated, registryVars, res, dbSettings, localSettings, overrides,
                   mergeVars, windowVars, sessionVars, accountVars, raceVars,
                   desktopVars>>

\* fetchWorkspaces resumes with its response (part_005 132-164)
SettleFetchWorkspaces(f) ==
    /\ f \in inFlight
    /\ f.answered
    /\ f.kind = "workspaces"
    /\ inFlight' = inFlight \ {f}
    /\ lastApplied' = Applied(f)
    /\ IF f.ok
       THEN /\ clientWorkspaces' = fetchedWorkspaces(f.workspaces)
            /\ IF HasId(clientWorkspaces', f.capturedId)
               THEN UNCHANGED <<currentWorkspaceId, storedWorkspaceId>>
               ELSE /\ currentWorkspaceId' = "default"
                    /\ storedWorkspaceId' = "default"
       ELSE /\ clientWorkspaces' = <<DEFAULT_WORKSPACE>>
            /\ UNCHANGED <<currentWorkspaceId, storedWorkspaceId>>
    /\ UNCHANGED <<initiated, coreVars, pendingFetches, mounted, mergeVars,
                   windowVars, accountVars, raceVars, desktopVars>>

FetchKinds == {"settings", "workspaces"}

\* the workspace another tab of the user creates meanwhile
OtherTabBodies == {PostBody(Str(<<"W">>), Undefined, Undefined)}

\* at most this many workspaces are created from the other tab
MaxOtherTab == 1

\* updateSettings(section, updates) calls of the page while fetches are in
\* flight
FetchUpdates ==
    { <<"appearance", Obj("fontScale" :> Num(120))>>,
      <<"appearance", Obj("theme" :> Tok("oled-black"))>> }

\* one page whose fetches overlap; the page patches its settings, and another
\* tab of the same user creates workspaces
FetchNext ==
    \/ \E kind \in FetchKinds : StartFetch(kind)
    \/ \E f \in inFlight, backendOk \in BOOLEAN : AnswerFetch(f, backendOk)
    \/ \E f \in inFlight : SettleFetchSettings(f)
    \/ \E f \in inFlight : SettleFetchWorkspaces(f)
    \/ \E u \in FetchUpdates, backendOk \in BOOLEAN :
          updateSettings(u[1], u[2], backendOk)
    \/ \E body \in OtherTabBodies :
          Len(dbWorkspaces) < MaxOtherTab /\ PostWorkspace(body)

SpecFetch == Init /\ [][FetchNext]_vars

\* C22: the response of a fetch is applied to globalSettings, or to the
\* workspace list, only if no fetch of the same kind that was started later
\* has had its response applied already
C22_LatestInitiatedWins ==
    [][\A f \in inFlight :
          (f.ok /\ (SettleFetchSettings(f) \/ SettleFetchWorkspaces(f)))
              => f.n > lastApplied[f.kind]]_vars

\* the page shows a workspace list that is older than one it has shown: the
\* list of the fetch started first, applied after the list of the second
StaleListShown ==
    /\ inFlight = {}
    /\ initiated = 2
    /\ lastApplied.workspaces = 1
    /\ Len(dbWorkspaces) = 1
    /\ Len(clientWorkspaces) = 1

\* globalSettings shows the values of an updateSettings(section, updates) call
Shows(global, section, updates) ==
    \A key \in ObjectKeys(updates) :
        Get(OrElse(Get(global, section), EmptyObj), key) = Get(updates, key)

\* C24: what updateSettings has put into globalSettings stays there until the
\* page patches or resets again: no response of a fetch, whether the fetch was
\* in flight when the patch was made or failed afterwards, takes the values
\* of a patch out of globalSettings
C24_ReadYourWrites ==
    [][\A f \in inFlight, u \in FetchUpdates :
          (SettleFetchSettings(f) /\ Shows(globalSettings, u[1], u[2]))
              => Shows(globalSettings', u[1], u[2])]_vars

\* a patch the backend has stored is no longer shown by the page, and no fetch
\* is in flight
PatchNotShown ==
    /\ inFlight = {}
    /\ \E u \in FetchUpdates :
          /\ Shows(OrElse(dbSettings, EmptyObj), u[1], u[2])
          /\ ~Shows(globalSettings, u[1], u[2])

-----------------------------------------------------------------------------
(* The backend with requests of one user interleaving: every mutating        *)
(* handler awaits prisma.user.findUnique, computes, and awaits               *)
(* prisma.user.update; other requests run between the two                    *)

\* at most this many requests are handled
MaxRequests == 3

\* the stored columns of the user, as far as one request reads or writes them
Row(settingsValue, workspaces) ==
    [settings |-> settingsValue, workspaces |-> workspaces]

\* the outcome of a handler: whether it calls prisma.user.update, and with what
Write(row) == [wrote |-> TRUE, row |-> row]

\* the handler answers without writing
NoWrite == [wrote |-> FALSE, row |-> Row(Null, << >>)]

\* the column a request reads and writes
Column(op) == IF op = "PATCH_SETTINGS" THEN "settings" ELSE "workspaces"

\* what prisma.user.findUnique with `select` of that column returns
Persisted(column) ==
    IF column = "settings" THEN Row(dbSettings, << >>) ELSE Row(Null, dbWorkspaces)

\* a request being handled: what it was sent with, the id and the time it
\* draws, the column value it read, and the number of writes that had
\* happened when it read
Handler(n, op, id, body, uuid, t, read, readAt) ==
    [n |-> n, op |-> op, id |-> id, body |-> body, uuid |-> uuid, t |-> t,
     read |-> read, readAt |-> readAt]

\* what a handler passes to prisma.user.update, from the value it has read:
\* PATCH /api/user/settings (index.ts 501-507), POST /api/workspaces (index.ts
\* 569-587), PATCH /api/workspaces/:id (index.ts 611-658) and DELETE
\* /api/workspaces/:id (index.ts 687-697)
WrittenBy(op, id, body, uuid, t, read) ==
    LET workspaces == read.workspaces IN
    CASE op = "PATCH_SETTINGS" ->
            Write(Row(MergedSettings(read.settings, body), << >>))
      [] op = "POST" ->
            Write(Row(Null, Append(workspaces, NewWorkspace(body, uuid, t))))
      [] op = "PATCH" ->
            LET workspaceIndex == findIndex(workspaces, id) IN
            IF workspaceIndex = 0
            THEN IF id = "default"
                 THEN Write(Row(Null, <<HealedDefault(body, t)>> \o workspaces))
                 ELSE NoWrite
            ELSE Write(Row(Null,
                     [workspaces EXCEPT ![workspaceIndex] =
                         UpdatedWorkspace(workspaces[workspaceIndex], body, t)]))
      [] op = "DELETE" ->
            LET filteredWorkspaces == FilterOut(workspaces, id) IN
            IF Len(filteredWorkspaces) = Len(workspaces)
            THEN NoWrite
            ELSE Write(Row(Null, filteredWorkspaces))

\* mutant of ValueRead: the handler reads and writes in one transaction
ValueReadInTransaction(h, current) == current

\* the value the handler computes from: the one findUnique returned
ValueRead(h, current) == h.read

\* a handler runs up to its prisma.user.update: it has validated the request,
\* read the column, and drawn its id and its timestamps
BeginRequest(op, id, body) ==
    /\ Len(writes) + Cardinality(handlers) < MaxRequests
    /\ now < MaxClock
    /\ op = "POST" => nextUuid < MaxUuid
    /\ handlers' = handlers \cup
          {Handler(Len(writes) + Cardinality(handlers) + 1, op, id, body,
                   randomUUID(nextUuid + 1), now, Persisted(Column(op)), Len(writes))}
    /\ nextUuid' = IF op = "POST" THEN nextUuid + 1 ELSE nextUuid
    /\ now' = now + 1
    /\ UNCHANGED <<writes, dbSettings, dbWorkspaces, res, globalSettings,
                   useLocalStorage, localSettings, overrides, mergeVars, windowVars,
                   sessionVars, accountVars, asyncVars, desktopVars>>

\* the handler's prisma.user.update happens, and it answers
CompleteRequest(h) ==
    LET written == WrittenBy(h.op, h.id, h.body, h.uuid, h.t,
                             ValueRead(h, Persisted(Column(h.op))))
    IN  /\ h \in handlers
        /\ handlers' = handlers \ {h}
        /\ writes' = Append(writes,
              [n |-> h.n, op |-> h.op, id |-> h.id, body |-> h.body, uuid |-> h.uuid,
               t |-> h.t, readAt |-> h.readAt, wrote |-> written.wrote,
               value |-> written.row])
        /\ IF ~written.wrote
           THEN /\ res' = ErrorResponse(h.op, h.id, 404)
                /\ UNCHANGED <<dbSettings, dbWorkspaces>>
           ELSE IF Column(h.op) = "settings"
           THEN /\ dbSettings' = written.row.settings
                /\ res' = SettingsResponse(200, written.row.settings, h.body)
                /\ UNCHANGED dbWorkspaces
           ELSE /\ dbWorkspaces' = written.row.workspaces
                /\ res' = Response(h.op, h.id, IF h.op = "POST" THEN 201 ELSE 200,
                                   Undefined, Undefined, << >>)
                /\ UNCHANGED dbSettings
        /\ UNCHANGED <<now, nextUuid, globalSettings, useLocalStorage, localSettings,
                       overrides, mergeVars, windowVars, sessionVars, accountVars,
                       asyncVars, desktopVars>>

\* the requests two tabs of one user send: settings patches of two sections,
\* a create, updates of the default and of a created workspace, a delete
RaceRequests ==
    { <<"PATCH_SETTINGS", "", Obj("appearance" :> Obj("fontScale" :> Num(120)))>>,
      <<"PATCH_SETTINGS", "", Obj("feedContent" :> Obj("dateFormat" :> Tok("us")))>>,
      <<"POST", "", PostBody(Str(<<"W">>), Undefined, Undefined)>>,
      <<"PATCH", "default", PatchBody(Tok("Renamed"), Undefined, Undefined, Undefined)>>,
      <<"PATCH", "default", PatchBody(Undefined, Undefined, OverridesTheme, Undefined)>>,
      <<"PATCH", "uuid-1", PatchBody(Tok("Renamed"), Undefined, Undefined, Undefined)>>,
      <<"DELETE", "uuid-1", PatchBody(Undefined, Undefined, Undefined, Undefined)>> }

RaceNext ==
    \/ \E r \in RaceRequests : BeginRequest(r[1], r[2], r[3])
    \/ \E h \in handlers : CompleteRequest(h)

SpecRace == Init /\ [][RaceNext]_vars

\* the writes of a column among the first k writes
WritesOf(column, k) ==
    {i \in 1..k : Column(writes[i].op) = column /\ writes[i].wrote}

Latest(indices) == CHOOSE i \in indices : \A j \in indices : j <= i

\* the value of a column after the first k writes
ValueAfter(column, k) ==
    IF WritesOf(column, k) = {}
    THEN Row(Null, << >>)
    ELSE writes[Latest(WritesOf(column, k))].value

\* C23: the persisted value of a column is the one the request that wrote it
\* last computed from the value the column had when that request read it; what
\* requests wrote between that read and that write is not merged in
C23_LastWriteWins ==
    \A column \in {"settings", "workspaces"} :
        WritesOf(column, Len(writes)) # {} =>
            LET last == writes[Latest(WritesOf(column, Len(writes)))] IN
            Persisted(column) =
                WrittenBy(last.op, last.id, last.body, last.uuid, last.t,
                          ValueAfter(column, last.readAt)).row

\* two settings patches of different sections have both completed, the one
\* that wrote last had read before the other wrote, and the section of the
\* first is not stored
C23_Witness ==
    /\ handlers = {}
    /\ Len(writes) = 2
    /\ writes[1].op = "PATCH_SETTINGS"
    /\ writes[2].op = "PATCH_SETTINGS"
    /\ writes[1].body # writes[2].body
    /\ writes[2].readAt = 0
    /\ dbSettings = writes[2].body

\* the ids of a workspace list, in order
Ids(workspaces) == [i \in DOMAIN workspaces |-> workspaces[i].id]

\* no two entries of the list have the same id
Distinct(workspaces) ==
    \A i, j \in DOMAIN workspaces : i # j => workspaces[i].id # workspaces[j].id

\* C26: however create, update and delete requests interleave, the ids of the
\* persisted workspace list are pairwise distinct (so at most one entry is
\* "default"), and an update of a stored workspace writes a list with the ids
\* it read, in the same order
C26_IdsPairwiseDistinct ==
    [][/\ Distinct(dbWorkspaces')
       /\ \A h \in handlers :
             (/\ CompleteRequest(h)
              /\ h.op = "PATCH"
              /\ HasId(h.read.workspaces, h.id))
             => Ids(dbWorkspaces') = Ids(h.read.workspaces)]_vars

\* two updates of a missing default workspace ran concurrently, each wrote a
\* list with the default it made, and the stored list has one default
C26_Witness ==
    /\ handlers = {}
    /\ Len(writes) = 3
    /\ writes[1].op = "PATCH" /\ writes[1].id = "default"
    /\ writes[2].op = "PATCH" /\ writes[2].id = "default"
    /\ writes[2].readAt = 0
    /\ Len(dbWorkspaces) = 1
    /\ dbWorkspaces[1].id = "default"

\* a created workspace was updated by a request that ran concurrently with
\* another one
ConcurrentUpdate ==
    /\ handlers = {}
    /\ Len(writes) = 3
    /\ writes[1].op = "POST"
    /\ writes[2].op = "PATCH" /\ writes[2].id = "default"
    /\ writes[3].op = "PATCH" /\ writes[3].id = "uuid-1" /\ writes[3].wrote
    /\ writes[3].readAt = 1
    /\ Ids(dbWorkspaces) = <<"uuid-1">>

-----------------------------------------------------------------------------
(* Settings: local-only mode *)

\* C25: an updateSettings call whose PATCH fails puts the provider into
\* local-only mode, with the locally merged settings in local storage and in
\* globalSettings and nothing persisted remotely; every updateSettings call
\* in local-only mode writes the merged settings to local storage, keeps the
\* mode, and sends no request
C25_FailedPatchFallsBackToLocal ==
    [][\A u \in SettingsUpdates :
          LET new == newGlobalSettings(globalSettings, u[1], u[2]) IN
          /\ (~useLocalStorage /\ updateSettings(u[1], u[2], FALSE))
                => /\ useLocalStorage'
                   /\ localSettings' = new
                   /\ globalSettings' = new
                   /\ dbSettings' = dbSettings
          /\ (useLocalStorage /\ \E backendOk \in BOOLEAN :
                                    updateSettings(u[1], u[2], backendOk))
                => /\ useLocalStorage'
                   /\ localSettings' = new
                   /\ globalSettings' = new
                   /\ dbSettings' = dbSettings
                   /\ res' = res]_vars

\* the provider is in local-only mode after a failed patch and a later one:
\* local storage holds both patches, the backend neither
C25_Witness ==
    /\ useLocalStorage
    /\ dbSettings = Null
    /\ localSettings = globalSettings
    /\ Shows(localSettings, "appearance", Obj("fontScale" :> Num(120)))
    /\ Shows(localSettings, "appearance", Obj("theme" :> Tok("oled-black")))

-----------------------------------------------------------------------------
(* Workspaces provider: updateWorkspace *)

\* { ...a, ...b } of two objects
Spread(a, b) ==
    Obj([key \in ObjectKeys(a) \cup ObjectKeys(b) |->
            IF key \in ObjectKeys(b) THEN Get(b, key) ELSE Get(a, key)])

\* the optimistic value of updateWorkspace for one workspace (part_005 227-239)
OptimisticWorkspace(w, updates) ==
    [w EXCEPT
        !.name = IF updates.name # Undefined THEN updates.name ELSE @,
        !.icon = IF updates.icon # Undefined THEN updates.icon ELSE @,
        !.settingsOverrides =
            IF Truthy(updates.settingsOverrides)
            THEN Spread(w.settingsOverrides, updates.settingsOverrides)
            ELSE w.settingsOverrides]

\* prev.map((w) => w.id === workspaceId ? ... : w)
OptimisticWorkspaces(workspaces, workspaceId, updates) ==
    [i \in DOMAIN workspaces |->
        IF workspaces[i].id = workspaceId
        THEN OptimisticWorkspace(workspaces[i], updates)
        ELSE workspaces[i]]

\* updateWorkspace (part_005 214-264) with the PATCH it sends; backendOk: the
\* request reached the backend; a request that fails is followed by
\* fetchWorkspaces
updateWorkspace(workspaceId, updates, backendOk) ==
    LET written == WrittenBy("PATCH", workspaceId, updates, "", now,
                             Row(Null, dbWorkspaces))
    IN  /\ mounted
        /\ clientWorkspaces' = OptimisticWorkspaces(clientWorkspaces, workspaceId, updates)
        /\ IF backendOk /\ written.wrote
           THEN /\ now < MaxClock
                /\ dbWorkspaces' = written.row.workspaces
                /\ res' = Response("PATCH", workspaceId, 200, Undefined, Undefined, << >>)
                /\ now' = now + 1
                /\ UNCHANGED pendingFetches
           ELSE /\ pendingFetches' = pendingFetches \cup {currentWorkspaceId}
                /\ UNCHANGED <<dbWorkspaces, now, res>>
        /\ UNCHANGED <<nextUuid, currentWorkspaceId, storedWorkspaceId, mounted,
                       notSessionVars>>

\* the `updates` of the workspace settings panel: overrides of one field, of
\* another field of the same section, and a new name
WorkspaceUpdates ==
    { PatchBody(Undefined, Undefined, OverridesTheme, Undefined),
      PatchBody(Undefined, Undefined, OverridesFont, Undefined),
      PatchBody(Tok("Renamed"), Undefined, Undefined, Undefined) }

UpdateNext ==
    \/ Mount
    \/ \E capturedId \in RequestIds, backendOk \in BOOLEAN :
          fetchWorkspaces(capturedId, backendOk)
    \/ \E workspaceId \in ListedIds, updates \in WorkspaceUpdates,
          backendOk \in BOOLEAN :
          updateWorkspace(workspaceId, updates, backendOk)

SpecUpdate == Init /\ [][UpdateNext]_vars

\* the settingsOverrides of a workspace in a list; {} when it is not listed
OverridesOf(workspaces, id) ==
    IF HasId(workspaces, id)
    THEN workspaces[findIndex(workspaces, id)].settingsOverrides
    ELSE EmptyObj

\* C27: an updateWorkspace(id, {settingsOverrides: P}) call that succeeds and
\* starts with the client's overrides of the workspace equal to the persisted
\* ones ends with them equal
C27_ClientAndServerAgree ==
    [][\A workspaceId \in RequestIds, updates \in WorkspaceUpdates :
          (/\ updates.settingsOverrides # Undefined
           /\ OverridesOf(clientWorkspaces, workspaceId)
                = OverridesOf(dbWorkspaces, workspaceId)
           /\ updateWorkspace(workspaceId, updates, TRUE)
           /\ res'.status = 200 /\ dbWorkspaces' # dbWorkspaces)
          => OverridesOf(clientWorkspaces', workspaceId)
                = OverridesOf(dbWorkspaces', workspaceId)]_vars

-----------------------------------------------------------------------------
(* SoapboxDesktop: the windows of the desktop and their persistence          *)
(* (app/verify-email/page.tsx 234-586, saveWindowState part_005 306-338)     *)

\* at most this many actions of the user on the desktop: window actions and
\* workspace switches
MaxWindowChanges == 3

\* window.innerWidth - 40 and window.innerHeight - 140 of one browser window
\* of 1300 x 940 (page.tsx 393-394)
viewportWidth == 1260
viewportHeight == 800
padding == 20

Min(a, b) == IF a < b THEN a ELSE b
Max(a, b) == IF a > b THEN a ELSE b

Bounds(x, y, width, height) ==
    [x |-> Num(x), y |-> Num(y), width |-> Num(width), height |-> Num(height)]

\* calculateOptimalLayout (page.tsx 392-478) with the medium size factor 0.7;
\* the desktop has two window types, so one or two windows
calculateOptimalLayout(windowCount) ==
    IF windowCount = 1
    THEN << Bounds(padding, padding,
                   Min(560, viewportWidth - padding * 2),
                   Min(420, viewportHeight - padding * 2)) >>
    ELSE LET windowWidth == Max(400, (viewportWidth - padding * 3) \div 2)
             windowHeight == Min(600, viewportHeight - padding * 2)
         IN  << Bounds(padding, padding, windowWidth, windowHeight),
                Bounds(padding * 2 + windowWidth, padding, windowWidth, windowHeight) >>

\* { ...win, ...layout }
WithBounds(win, layout) ==
    WithKey(WithKey(WithKey(WithKey(win, "x", layout.x), "y", layout.y),
                    "width", layout.width), "height", layout.height)

\* windows.map((win, idx) => ({ ...win, ...layouts[idx] }))
Relayout(wins, layouts) ==
    [idx \in DOMAIN wins |-> WithBounds(wins[idx], layouts[idx])]

\* windows.filter((w) => w.id !== id)
RemainingWindows(wins, id) == SelectSeq(wins, LAMBDA w : Get(w, "id") # Tok(id))

\* the state `maxZIndex`: initially 10, above every stacking order handed out
maxZIndex ==
    LET orders == {10} \cup {Get(windows[i], "zIndex").n : i \in DOMAIN windows}
    IN  CHOOSE z \in orders : \A other \in orders : other =< z

\* windows.map(serializeWindowState) (page.tsx 288)
SerializedWindows(wins) ==
    Arr([i \in DOMAIN wins |-> serializeWindowState(wins[i])])

\* the timeout of the save effect: the window list and the saveWindowState
\* callback of the render that set it, which has captured that render's
\* currentWorkspaceId (part_005 317, 337); armedBy: the dependency whose change
\* ran the effect (page.tsx 293)
SaveTimer(windowState, workspaceId, armedBy) ==
    [windowState |-> windowState, workspaceId |-> workspaceId, armedBy |-> armedBy]

\* the save effect runs (page.tsx 284-293): the cleanup clears the timeout of
\* the previous run; no new timeout before the desktop is initialized or
\* while no window is open
SaveEffect(initialized, wins, workspaceId, armedBy) ==
    IF ~initialized \/ Len(wins) = 0
    THEN NoTimer
    ELSE SaveTimer(SerializedWindows(wins), workspaceId, armedBy)

\* the restore effect (page.tsx 258-281), once: the windows of
\* currentWorkspace.windowState with the stacking orders 10 + index; when the
\* effect runs relative to the first fetchWorkspaces is not fixed by the code
RestoreEffect ==
    /\ mounted
    /\ ~isInitialized
    /\ LET savedState == OrElse(currentWorkspace.windowState, EmptyArr).a
           restoredWindows ==
               [index \in DOMAIN savedState |->
                   deserializeWindowState(savedState[index], 10 + (index - 1))]
       IN  /\ windows' = IF Len(savedState) > 0 THEN restoredWindows ELSE windows
           /\ isInitialized' = TRUE
           /\ saveTimer' = SaveEffect(TRUE, windows', currentWorkspaceId, "restore")
    /\ UNCHANGED <<windowChanges, registryVars, res, sessionVars, settingsVars,
                   mergeVars, windowVars, accountVars, asyncVars, raceVars>>

\* what a window action leaves alone
notDesktopVars == <<registryVars, res, sessionVars, settingsVars, mergeVars,
                    windowVars, accountVars, asyncVars, raceVars>>

\* setWindows(next) by an action of the user, and the save effect after it
SetWindows(next) ==
    /\ isInitialized
    /\ windowChanges < MaxWindowChanges
    /\ windows' = next
    /\ windowChanges' = windowChanges + 1
    /\ saveTimer' = SaveEffect(isInitialized, next, currentWorkspaceId, "windows")
    /\ UNCHANGED <<isInitialized, notDesktopVars>>

\* openWindow (page.tsx 480-520): a window of that type is focused or
\* restored; otherwise all windows are laid out anew and the new one appended
openWindow(type, title) ==
    LET nextZ == maxZIndex + 1 IN
    IF \E i \in DOMAIN windows : Get(windows[i], "type") = Tok(type)
    THEN SetWindows([i \in DOMAIN windows |->
            IF Get(windows[i], "type") = Tok(type)
            THEN IF Get(windows[i], "isMinimized") = Bool(TRUE)
                 THEN WithKey(WithKey(windows[i], "isMinimized", Bool(FALSE)),
                              "zIndex", Num(nextZ))
                 ELSE WithKey(windows[i], "zIndex", Num(nextZ))
            ELSE windows[i]])
    ELSE LET newId == "w" \o ToString(windowChanges + 1)
             newWindowCount == Len(windows) + 1
             layouts == calculateOptimalLayout(newWindowCount)
             newWindow ==
                 WithBounds(Obj("id" :> Tok(newId) @@ "type" :> Tok(type) @@
                                "title" :> Tok(title) @@ "isOpen" :> Bool(TRUE) @@
                                "isMinimized" :> Bool(FALSE) @@
                                "zIndex" :> Num(nextZ)),
                            layouts[newWindowCount])
         IN  SetWindows(Append(Relayout(windows, layouts), newWindow))

\* closeWindow (page.tsx 523-541)
closeWindow(id) ==
    LET remainingWindows == RemainingWindows(windows, id) IN
    /\ \E i \in DOMAIN windows : Get(windows[i], "id") = Tok(id)
    /\ IF Len(remainingWindows) > 0
       THEN SetWindows(Relayout(remainingWindows,
                                calculateOptimalLayout(Len(remainingWindows))))
       ELSE SetWindows(<< >>)

\* handleDrag (page.tsx 571-580)
handleDrag(id, x, y) ==
    /\ \E i \in DOMAIN windows : Get(windows[i], "id") = Tok(id)
    /\ SetWindows([i \in DOMAIN windows |->
          IF Get(windows[i], "id") = Tok(id)
          THEN WithKey(WithKey(windows[i], "x", Num(x)), "y", Num(y))
          ELSE windows[i]])

\* switchWorkspace (part_005 173-176) on the desktop: saveWindowState is
\* re-created with the new id (part_005 337), so the save effect runs again
\* with the windows that are on the screen (page.tsx 293); the restore effect
\* returns at once (page.tsx 258)
switchWorkspaceOnDesktop(workspaceId) ==
    /\ mounted
    /\ workspaceId # currentWorkspaceId
    /\ windowChanges < MaxWindowChanges
    /\ windowChanges' = windowChanges + 1
    /\ currentWorkspaceId' = workspaceId
    /\ storedWorkspaceId' = workspaceId
    /\ pendingFetches' = Refetch(pendingFetches, workspaceId)
    /\ saveTimer' = SaveEffect(isInitialized, windows, workspaceId, "workspace")
    /\ UNCHANGED <<clientWorkspaces, mounted, windows, isInitialized, registryVars,
                   res, settingsVars, mergeVars, windowVars, accountVars, asyncVars,
                   raceVars>>

\* prev.map((w) => w.id === currentWorkspaceId ? { ...w, windowState } : w)
WithWindowState(workspaces, workspaceId, windowState) ==
    [i \in DOMAIN workspaces |->
        IF workspaces[i].id = workspaceId
        THEN [workspaces[i] EXCEPT !.windowState = windowState]
        ELSE workspaces[i]]

\* the timeout fires (page.tsx 287-290): saveWindowState (part_005 306-338)
\* with the PATCH it sends; backendOk: the request reached the backend; the
\* clock of the model stops at MaxClock
SaveTimerFires(backendOk) ==
    /\ saveTimer # NoTimer
    /\ LET workspaceId == saveTimer.workspaceId
           written == WrittenBy("PATCH", workspaceId,
                                PatchBody(Undefined, Undefined, Undefined,
                                          saveTimer.windowState),
                                "", now, Row(Null, dbWorkspaces))
       IN  /\ clientWorkspaces' =
                 WithWindowState(clientWorkspaces, workspaceId, saveTimer.windowState)
           /\ IF backendOk /\ written.wrote
              THEN /\ dbWorkspaces' = written.row.workspaces
                   /\ res' = Response("PATCH", workspaceId, 200, Undefined,
                                      Undefined, << >>)
                   /\ now' = Min(now + 1, MaxClock)
              ELSE UNCHANGED <<dbWorkspaces, now, res>>
    /\ saveTimer' = NoTimer
    /\ UNCHANGED <<nextUuid, currentWorkspaceId, storedWorkspaceId, pendingFetches,
                   mounted, windows, isInitialized, windowChanges, settingsVars,
                   mergeVars, windowVars, accountVars, asyncVars, raceVars>>

\* the two window types with their titles
WindowTypes == {<<"streaming", "Feed">>, <<"calendar", "Calendar">>}

\* ids of the windows on the screen
WindowIds == {Get(windows[i], "id").s[1] : i \in DOMAIN windows}

\* one page with the desktop, on which the user creates one workspace to
\* switch to; the backend answers every request but the saves, which may fail
DesktopNext ==
    \/ Mount
    \/ \E capturedId \in RequestIds : fetchWorkspaces(capturedId, TRUE)
    \/ /\ Len(clientWorkspaces) < 2
       /\ \E name \in SessionNames : createWorkspace(name, Undefined, TRUE)
    \/ RestoreEffect
    \/ \E t \in WindowTypes : openWindow(t[1], t[2])
    \/ \E id \in WindowIds : closeWindow(id)
    \/ \E id \in WindowIds : handleDrag(id, 100, 100)
    \/ \E workspaceId \in ListedIds : switchWorkspaceOnDesktop(workspaceId)
    \/ \E backendOk \in BOOLEAN : SaveTimerFires(backendOk)

SpecDesktop == Init /\ [][DesktopNext]_vars

\* the persisted windowState of a workspace; none stored reads as empty
PersistedWindowState(workspaceId) ==
    IF HasId(dbWorkspaces, workspaceId)
    THEN dbWorkspaces[findIndex(dbWorkspaces, workspaceId)].windowState
    ELSE EmptyArr

\* C28: switching the active workspace does not modify any workspace's
\* persisted windowState: a save that was scheduled by the switch alone, with
\* the windows that were on the screen for the previous workspace, leaves every
\* persisted windowState as it is.
C28_SwitchWritesNoWindowState ==
    [][\A backendOk \in BOOLEAN :
         (SaveTimerFires(backendOk) /\ saveTimer.armedBy = "workspace") =>
            \A workspaceId \in RequestIds :
               PersistedWindowState(workspaceId)' = PersistedWindowState(workspaceId)]_vars

\* a workspace in which no window was ever opened has the windows of another
\* workspace persisted
ForeignWindowsPersisted ==
    /\ windowChanges = 2
    /\ currentWorkspaceId = "uuid-1"
    /\ PersistedWindowState("uuid-1") # EmptyArr
    /\ PersistedWindowState("uuid-1") = PersistedWindowState("default")

\* the same page with the backend reachable: every request is answered
DesktopReachableNext ==
    \/ Mount
    \/ \E capturedId \in RequestIds : fetchWorkspaces(capturedId, TRUE)
    \/ /\ Len(clientWorkspaces) < 2
       /\ \E name \in SessionNames : createWorkspace(name, Undefined, TRUE)
    \/ RestoreEffect
    \/ \E t \in WindowTypes : openWindow(t[1], t[2])
    \/ \E id \in WindowIds : closeWindow(id)
    \/ \E id \in WindowIds : handleDrag(id, 100, 100)
    \/ \E workspaceId \in ListedIds : switchWorkspaceOnDesktop(workspaceId)
    \/ SaveTimerFires(TRUE)

\* a timeout that is pending fires (setTimeout, page.tsx 287-290), the mount
\* effects run and the requests in flight are answered
SpecDesktopLive ==
    /\ Init
    /\ [][DesktopReachableNext]_vars
    /\ WF_vars(SaveTimerFires(TRUE))
    /\ WF_vars(Mount)
    /\ WF_vars(RestoreEffect)
    /\ WF_vars(\E capturedId \in RequestIds : fetchWorkspaces(capturedId, TRUE))

\* the persisted windowState of the active workspace is the serialization of
\* the windows on the screen
LayoutPersisted ==
    PersistedWindowState(currentWorkspaceId) = SerializedWindows(windows)

\* C29: once window changes stop, the active workspace's persisted windowState
\* eventually equals, and stays equal to, the serialization of the current
\* window list, the empty list included.
C29_LayoutEventuallyPersisted == <>[]LayoutPersisted

\* what the save effect does deliver: the layout is persisted whenever a
\* window is left open
LayoutPersistedWhileWindowsOpen == <>[](Len(windows) > 0 => LayoutPersisted)

\* the last window was closed, nothing is pending, and the closed window is
\* still persisted
ClosedWindowStillPersisted ==
    /\ isInitialized
    /\ windows = << >>
    /\ saveTimer = NoTimer
    /\ PersistedWindowState(currentWorkspaceId) # EmptyArr

-----------------------------------------------------------------------------
(* The optimistic value of updateSettings and the value the backend persists *)
(* (SettingsContext.tsx 228-263, index.ts 484-545)                           *)

\* `settings` values of PATCH /api/user/settings bodies of any client of the
\* API: a section that is an object, a nested object, a string, an array, a
\* number, null
PatchPayloads ==
    { Obj("appearance" :> Obj("theme" :> Tok("dark"))),
      Obj("feedContent" :> Obj("filters" :> Obj("lang" :> Tok("en")))),
      Obj("appearance" :> Str(<<"d", "a", "r", "k">>)),
      Obj("appearance" :> Arr(<<Tok("x")>>)),
      Obj("appearance" :> Num(5)),
      Obj("appearance" :> Null) }

\* updateSettings(section, updates) calls of the settings drawer: a field, a
\* null field, a nested object
PatchUpdates ==
    { <<"appearance", Obj("theme" :> Tok("oled-black"))>>,
      <<"appearance", Obj("fontScale" :> Null)>>,
      <<"feedContent", Obj("filters" :> Obj("muted" :> Bool(TRUE)))>> }

\* the page of one user, and other clients of the API writing the same
\* user's settings
PatchNext ==
    \/ \E payload \in PatchPayloads : PatchSettings(payload)
    \/ \E backendOk \in BOOLEAN : fetchSettings(backendOk)
    \/ \E u \in PatchUpdates, backendOk \in BOOLEAN :
          updateSettings(u[1], u[2], backendOk)

SpecPatch == Init /\ [][PatchNext]_vars

\* the client and the backend are in equal states: the page is in backend
\* mode and holds what a GET would return
EqualStates ==
    /\ ~useLocalStorage
    /\ globalSettings = OrElse(dbSettings, EmptyObj)

\* C30: for every stored settings tree S and every section patch P, the
\* client's optimistic value {...S, [section]: deepMerge(S[section] or {}, P)}
\* equals the server's deepMerge(S, {[section]: P}), whenever updateSettings
\* starts from equal states.
C30_OptimisticEqualsPersisted ==
    [][\A u \in PatchUpdates, backendOk \in BOOLEAN :
         (EqualStates /\ updateSettings(u[1], u[2], backendOk)) =>
            newGlobalSettings(globalSettings, u[1], u[2]) =
               MergedSettings(dbSettings, Obj(u[1] :> u[2]))]_vars

\* { ...v } of a value that is not an object has no key: every scalar, null,
\* the empty string and the empty array
SpreadsAsObject(v) == IsObject(v) \/ ObjectKeys(v) = {}

\* the two values are equal when the stored section is an object, or is
\* missing, null, a number, a boolean or empty; and a successful
\* updateSettings leaves the client with the persisted settings
OptimisticEqualsPersistedForObjectSections ==
    [][\A u \in PatchUpdates, backendOk \in BOOLEAN :
         (EqualStates /\ updateSettings(u[1], u[2], backendOk)) =>
            /\ SpreadsAsObject(Get(globalSettings, u[1])) =>
                  newGlobalSettings(globalSettings, u[1], u[2]) =
                     MergedSettings(dbSettings, Obj(u[1] :> u[2]))
            /\ backendOk => globalSettings' = dbSettings']_vars

\* the page shows the characters of a stored string as fields of the
\* section, next to the field just set
StringSpreadShown ==
    /\ Get(Get(globalSettings, "appearance"), "0") = Tok("d")
    /\ Get(Get(globalSettings, "appearance"), "theme") = Tok("oled-black")
    /\ Get(Get(globalSettings, "appearance"), "3") = Tok("k")
    /\ dbSettings = Obj("appearance" :> Str(<<"d", "a", "r", "k">>))

====
